---- MODULE Spec2Model ----
(***************************************************************************)
(* Model of the audio-to-segment pipeline of the DebateRef front end:      *)
(*   - the chunked transcription hook (useElevenLabsTranscription):        *)
(*     capture callbacks, window flushes, the serialized upload queue,     *)
(*     the word -> segment conversion and the tail merge;                   *)
(*   - the page-level chunk aggregator (LivePage / ReplayPage): segment     *)
(*     registration, the periodic flush and the merge of analysis results. *)
(*                                                                         *)
(* Conventions.  Text is a sequence of one-character strings.  Time is     *)
(* counted in units of 1/TimeScale second, so that the 1.25 s merge gap    *)
(* and the sample-count -> seconds conversion stay in the integers.        *)
(***************************************************************************)
EXTENDS Integers, Sequences, FiniteSets, TLC

\* ---------------------------------------------------------------------
\* Program constants
\* ---------------------------------------------------------------------
TARGET_SAMPLE_RATE == 16000

CHUNK_DURATION_SECONDS == 6

\* time units per second (1 unit = 10 ms)
TimeScale == 100

\* 1.25 s, in time units
MERGE_GAP_SECONDS == 125

\* ---------------------------------------------------------------------
\* Bounds of the model
\* ---------------------------------------------------------------------
\* audio callbacks delivered over a whole behaviour
MaxCallbacks == 3

\* audio callbacks delivered over a whole behaviour when each buffer fills a
\* window or half of one
MaxWindowBuffers == 2

\* entries of a word list handed to convertWordsToSegments on its own
MaxCallWords == 3

\* messages the streaming socket delivers over a whole behaviour
MaxMessages == 3

\* samples of a buffer handed to downsampleBuffer on its own
MaxSamples == 12

\* samples of a buffer handed to createWavBlob on its own
MaxWavSamples == 2

\* start() calls over a whole behaviour
MaxRuns == 2
MaxRaceRuns == 3

\* word entries in one transcription response
MaxWords == 2

\* batches dispatched to the analysis boundary over a whole behaviour
MaxBatches == 2

\* claims in one response of the analysis boundary
MaxClaims == 2
IntervalUnits == 2

\* ---------------------------------------------------------------------
\* Text helpers (JavaScript string operations used by the code)
\* ---------------------------------------------------------------------
Whitespace == {" ", "\t"}

Max(a, b) == IF a >= b THEN a ELSE b

RECURSIVE TrimLeft(_)
TrimLeft(s) ==
    IF s # <<>> /\ Head(s) \in Whitespace THEN TrimLeft(Tail(s)) ELSE s

RECURSIVE TrimRight(_)
TrimRight(s) ==
    IF s # <<>> /\ s[Len(s)] \in Whitespace
    THEN TrimRight(SubSeq(s, 1, Len(s) - 1))
    ELSE s

\* String.prototype.trim
Trim(s) == TrimRight(TrimLeft(s))

\* String.prototype.replace(/\s+/g, " ")
RECURSIVE CollapseWhitespace(_)
CollapseWhitespace(s) ==
    IF s = <<>> THEN <<>>
    ELSE IF Head(s) \in Whitespace
         THEN <<" ">> \o CollapseWhitespace(TrimLeft(s))
         ELSE <<Head(s)>> \o CollapseWhitespace(Tail(s))

Digits == {"0", "1", "2", "3", "4", "5", "6", "7", "8", "9"}

\* the first maximal run of digits of s (the capture of /(\d+)/), <<>> if none
RECURSIVE DigitPrefix(_)
DigitPrefix(s) ==
    IF s # <<>> /\ Head(s) \in Digits
    THEN <<Head(s)>> \o DigitPrefix(Tail(s))
    ELSE <<>>

RECURSIVE FirstDigitRun(_)
FirstDigitRun(s) ==
    IF s = <<>> THEN <<>>
    ELSE IF Head(s) \in Digits THEN DigitPrefix(s)
    ELSE FirstDigitRun(Tail(s))

SpkPrefix == <<"s", "p", "k", "_">>

SpeakerPrefix == <<"s", "p", "e", "a", "k", "e", "r", "_">>

StartsWith(s, p) == Len(s) >= Len(p) /\ SubSeq(s, 1, Len(p)) = p

\* an absent speaker_id is the empty text: !speakerId holds for both
normalizeSpeakerId(speakerId) ==
    IF speakerId = <<>> THEN SpkPrefix \o <<"0">>
    ELSE IF FirstDigitRun(speakerId) # <<>>
         THEN SpkPrefix \o FirstDigitRun(speakerId)
    ELSE IF StartsWith(speakerId, SpeakerPrefix)
         THEN SpkPrefix \o SubSeq(speakerId, Len(SpeakerPrefix) + 1, Len(speakerId))
    ELSE speakerId

\* ---------------------------------------------------------------------
\* Word -> segment conversion and tail merge
\* ---------------------------------------------------------------------
\* a timestamp the provider omitted (not a finite number)
NaN == -1

IsFinite(t) == t # NaN

\* state of the loop of convertWordsToSegments before any word
ConvInit ==
    [segments |-> <<>>, open |-> FALSE, currentSpeaker |-> <<>>,
     currentText |-> <<>>, segmentStart |-> 0, lastWordEnd |-> 0]

\* pushSegment that forgets the chunk's start offset
pushSegmentNoOffset(st, sessionId, chunkStart, chunkId, rnd) ==
    IF Trim(st.currentText) = <<>> \/ ~st.open
    THEN st.segments
    ELSE Append(st.segments,
                [id |-> <<sessionId, chunkId, st.segmentStart, rnd + Len(st.segments)>>,
                 sessionId |-> sessionId,
                 speaker |-> st.currentSpeaker,
                 start |-> st.segmentStart,
                 end |-> st.lastWordEnd,
                 text |-> Trim(st.currentText)])

\* pushSegment without the guard on an empty text or a missing speaker
pushSegmentAlways(st, sessionId, chunkStart, chunkId, rnd) ==
    Append(st.segments,
           [id |-> <<sessionId, chunkId, st.segmentStart, rnd + Len(st.segments)>>,
            sessionId |-> sessionId,
            speaker |-> st.currentSpeaker,
            start |-> chunkStart + st.segmentStart,
            end |-> chunkStart + st.lastWordEnd,
            text |-> Trim(st.currentText)])

\* pushSegment that keeps a segment whose trimmed text is empty
pushSegmentKeepsBlank(st, sessionId, chunkStart, chunkId, rnd) ==
    IF ~st.open
    THEN st.segments
    ELSE Append(st.segments,
                [id |-> <<sessionId, chunkId, st.segmentStart, rnd + Len(st.segments)>>,
                 sessionId |-> sessionId,
                 speaker |-> st.currentSpeaker,
                 start |-> chunkStart + st.segmentStart,
                 end |-> chunkStart + st.lastWordEnd,
                 text |-> Trim(st.currentText)])

\* pushSegment: close the in-progress segment; rnd is the random id suffix
pushSegment(st, sessionId, chunkStart, chunkId, rnd) ==
    IF Trim(st.currentText) = <<>> \/ ~st.open
    THEN st.segments
    ELSE Append(st.segments,
                [id |-> <<sessionId, chunkId, st.segmentStart, rnd + Len(st.segments)>>,
                 sessionId |-> sessionId,
                 speaker |-> st.currentSpeaker,
                 start |-> chunkStart + st.segmentStart,
                 end |-> chunkStart + st.lastWordEnd,
                 text |-> Trim(st.currentText)])

\* Number.isFinite(word.start) ? word.start : lastWordEnd
WordStart(word, lastWordEnd) ==
    IF IsFinite(word.start) THEN word.start ELSE lastWordEnd

\* a loop body that keeps the segment open when the speaker changes
ConvStepIgnoresSpeaker(st, word, sessionId, chunkStart, chunkId, rnd) ==
    IF word.type = "word"
    THEN LET normalizedSpeaker == normalizeSpeakerId(word.speaker_id)
             start == IF IsFinite(word.start) THEN word.start ELSE st.lastWordEnd
             end == IF IsFinite(word.end) THEN word.end ELSE start
             opened ==
                 IF ~st.open
                 THEN [st EXCEPT !.open = TRUE,
                                 !.currentSpeaker = normalizedSpeaker,
                                 !.currentText = word.text,
                                 !.segmentStart = start]
                 ELSE [st EXCEPT !.currentText = st.currentText \o word.text]
         IN [opened EXCEPT !.lastWordEnd = Max(end, start)]
    ELSE IF word.type = "spacing"
    THEN [st EXCEPT !.currentText = st.currentText \o <<" ">>]
    ELSE st

\* one iteration of the loop over the words
ConvStep(st, word, sessionId, chunkStart, chunkId, rnd) ==
    IF word.type = "word"
    THEN LET normalizedSpeaker == normalizeSpeakerId(word.speaker_id)
             start == WordStart(word, st.lastWordEnd)
             end == IF IsFinite(word.end) THEN word.end ELSE start
             opened ==
                 IF ~st.open
                 THEN [st EXCEPT !.open = TRUE,
                                 !.currentSpeaker = normalizedSpeaker,
                                 !.currentText = word.text,
                                 !.segmentStart = start]
                 ELSE IF normalizedSpeaker # st.currentSpeaker
                 THEN [st EXCEPT !.segments =
                                     pushSegment(st, sessionId, chunkStart, chunkId, rnd),
                                 !.currentSpeaker = normalizedSpeaker,
                                 !.currentText = word.text,
                                 !.segmentStart = start]
                 ELSE [st EXCEPT !.currentText = st.currentText \o word.text]
         IN [opened EXCEPT !.lastWordEnd = Max(end, start)]
    ELSE IF word.type = "spacing"
    THEN [st EXCEPT !.currentText = st.currentText \o <<" ">>]
    ELSE st

RECURSIVE ConvLoop(_, _, _, _, _, _)
ConvLoop(st, words, sessionId, chunkStart, chunkId, rnd) ==
    IF words = <<>> THEN st
    ELSE ConvLoop(ConvStep(st, Head(words), sessionId, chunkStart, chunkId, rnd),
                  Tail(words), sessionId, chunkStart, chunkId, rnd)

convertWordsToSegments(words, sessionId, chunkStart, chunkId, rnd) ==
    pushSegment(ConvLoop(ConvInit, words, sessionId, chunkStart, chunkId, rnd),
                sessionId, chunkStart, chunkId, rnd)

\* a merge condition with a strict comparison of the gap
MergeOneStrict(merged, segment) ==
    IF /\ merged # <<>>
       /\ merged[Len(merged)].sessionId = segment.sessionId
       /\ merged[Len(merged)].speaker = segment.speaker
       /\ segment.start - merged[Len(merged)].end < MERGE_GAP_SECONDS
    THEN LET previous == merged[Len(merged)]
         IN [merged EXCEPT ![Len(merged)] =
                [previous EXCEPT
                    !.end = Max(previous.end, segment.end),
                    !.text = Trim(CollapseWhitespace(
                                 previous.text \o <<" ">> \o segment.text))]]
    ELSE Append(merged, segment)

\* a merge that takes the end of the candidate
MergeOneEndFromCandidate(merged, segment) ==
    IF /\ merged # <<>>
       /\ merged[Len(merged)].sessionId = segment.sessionId
       /\ merged[Len(merged)].speaker = segment.speaker
       /\ segment.start - merged[Len(merged)].end <= MERGE_GAP_SECONDS
    THEN LET previous == merged[Len(merged)]
         IN [merged EXCEPT ![Len(merged)] =
                [previous EXCEPT
                    !.end = segment.end,
                    !.text = Trim(CollapseWhitespace(
                                 previous.text \o <<" ">> \o segment.text))]]
    ELSE Append(merged, segment)

\* a merge loop that only appends
MergeOneAppend(merged, segment) == Append(merged, segment)

\* the body of the loop of mergeSegments for one incoming segment
MergeOne(merged, segment) ==
    IF /\ merged # <<>>
       /\ merged[Len(merged)].sessionId = segment.sessionId
       /\ merged[Len(merged)].speaker = segment.speaker
       /\ segment.start - merged[Len(merged)].end <= MERGE_GAP_SECONDS
    THEN LET previous == merged[Len(merged)]
         IN [merged EXCEPT ![Len(merged)] =
                [previous EXCEPT
                    !.end = Max(previous.end, segment.end),
                    !.text = Trim(CollapseWhitespace(
                                 previous.text \o <<" ">> \o segment.text))]]
    ELSE Append(merged, segment)

RECURSIVE mergeSegments(_, _)
mergeSegments(current, incoming) ==
    IF incoming = <<>> THEN current
    ELSE mergeSegments(MergeOne(current, Head(incoming)), Tail(incoming))

\* ---------------------------------------------------------------------
\* Claim merge of the aggregator
\* ---------------------------------------------------------------------
\* a start that is not a number (null or absent in the response)
NotANumber == -2

\* the sort key of the comparator: typeof x.start === "number" ? x.start : 0
StartKey(x) == IF x.start = NotANumber THEN 0 ELSE x.start

\* Array.prototype.sort with the comparator aStart - bStart (stable):
\* insert x behind every element whose key is not greater
RECURSIVE InsertByStart(_, _)
InsertByStart(sorted, x) ==
    IF sorted = <<>> THEN <<x>>
    ELSE IF StartKey(Head(sorted)) - StartKey(x) <= 0
         THEN <<Head(sorted)>> \o InsertByStart(Tail(sorted), x)
         ELSE <<x>> \o sorted

RECURSIVE SortByStart(_)
SortByStart(list) ==
    IF list = <<>> THEN <<>>
    ELSE InsertByStart(SortByStart(SubSeq(list, 1, Len(list) - 1)), list[Len(list)])

\* the updater without its sort
MergeAnalyzedUnsorted(prev, analyzed) == prev \o analyzed

\* the updater of setClaims / setFallacies: [...prev, ...analyzed] sorted
MergeAnalyzed(prev, analyzed) == SortByStart(prev \o analyzed)

\* a registration filter that does not consult the processed set
FilterAll(segs, processed) == segs

\* the segment registration effect: the segments whose id is not in the
\* processed set are added to the set and pushed on the pending buffer
RECURSIVE FilterNew(_, _)
FilterNew(segs, processed) ==
    IF segs = <<>> THEN <<>>
    ELSE IF Head(segs).id \in processed
         THEN FilterNew(Tail(segs), processed)
         ELSE <<Head(segs)>> \o FilterNew(Tail(segs), processed)

RegisterSegments(segs, processed, buffer) ==
    LET newSegments == FilterNew(segs, processed)
    IN [processed |-> processed \cup {newSegments[k].id : k \in 1..Len(newSegments)},
        buffer |-> buffer \o newSegments]

\* ---------------------------------------------------------------------
\* Inputs drawn by the environment
\* ---------------------------------------------------------------------
\* lengths of the resampled buffer one audio callback may deliver
BufferLengths == {0, 48000, 64000}

\* buffer lengths used when the windows' content is not the subject: a
\* buffer fills a window or half of one
WindowLengths == {48000, 96000}

Speaker0 == <<"s", "p", "e", "a", "k", "e", "r", "_", "0">>

Speaker1 == <<"s", "p", "e", "a", "k", "e", "r", "_", "1">>

\* word entries the transcription boundary may return (times relative to
\* the window, in time units)
Words ==
    {[type |-> "word", text |-> <<"a">>, start |-> 0, end |-> 600,
      speaker_id |-> Speaker0],
     [type |-> "word", text |-> <<"a">>, start |-> 500, end |-> 600,
      speaker_id |-> Speaker1]}

RECURSIVE SeqsUpTo(_, _)
SeqsUpTo(S, n) ==
    IF n = 0 THEN {<<>>}
    ELSE LET shorter == SeqsUpTo(S, n - 1)
         IN shorter \cup {Append(q, x) : q \in {r \in shorter : Len(r) = n - 1}, x \in S}

\* responses of the transcription boundary
WordLists == SeqsUpTo(Words, MaxWords)

\* responses of the transcription boundary used when the aggregator is
\* exercised: nothing, one word, or one word per speaker
PageWordLists ==
    {<<>>,
     <<[type |-> "word", text |-> <<"a">>, start |-> 0, end |-> 600,
        speaker_id |-> Speaker0]>>,
     <<[type |-> "word", text |-> <<"a">>, start |-> 0, end |-> 100,
        speaker_id |-> Speaker0],
       [type |-> "word", text |-> <<"b">>, start |-> 100, end |-> 200,
        speaker_id |-> Speaker1]>>}

\* claims the analysis boundary may return
Claims ==
    {[id |-> "c1", start |-> 200], [id |-> "c2", start |-> 100],
     [id |-> "c3", start |-> 100]}

ClaimLists == SeqsUpTo(Claims, MaxClaims)

\* fallacy insights the fallacy boundary may return
FallacyLists == {<<>>, <<[id |-> "f1", start |-> 100]>>}

\* entries with distinct timings: two words of speaker 0 early in the window,
\* one at its 5th second, a word of speaker 1, and a spacing entry
WordAt0 ==
    [type |-> "word", text |-> <<"a">>, start |-> 0, end |-> 100,
     speaker_id |-> Speaker0]

WordAt200 ==
    [type |-> "word", text |-> <<"b">>, start |-> 200, end |-> 300,
     speaker_id |-> Speaker0]

WordAt500 ==
    [type |-> "word", text |-> <<"c">>, start |-> 500, end |-> 600,
     speaker_id |-> Speaker0]

OtherSpeakerWord ==
    [type |-> "word", text |-> <<"d">>, start |-> 100, end |-> 200,
     speaker_id |-> Speaker1]

SpacingEntry ==
    [type |-> "spacing", text |-> <<" ">>, start |-> 100, end |-> 200,
     speaker_id |-> Speaker0]

\* an entry of kind "word" whose text is a single space
BlankWord ==
    [type |-> "word", text |-> <<" ">>, start |-> 200, end |-> 300,
     speaker_id |-> Speaker1]

\* responses of the transcription boundary with and without "word" entries,
\* in and out of time order, and with a speaker whose only word is blank
TimedWordLists ==
    {<<>>,
     <<SpacingEntry>>,
     <<WordAt0>>,
     <<WordAt500>>,
     <<WordAt0, SpacingEntry, WordAt200>>,
     <<WordAt200, WordAt0>>,
     <<WordAt0, OtherSpeakerWord>>,
     <<WordAt0, BlankWord>>}

\* segments handed to mergeSegments when the function is applied on its own:
\* the tail of the current list ...
TailSegments ==
    [id : {<<"s1", 0, 0, 0>>}, sessionId : {"s1"},
     speaker : {<<"s", "p", "k", "_", "0">>}, start : {900},
     end : {1000, 1200}, text : {<<"a">>, <<"a", " ", " ", "b">>}]

\* ... a segment in front of the tail ...
HeadSegment ==
    [id |-> <<"s1", 0, 0, 1>>, sessionId |-> "s1",
     speaker |-> <<"s", "p", "k", "_", "1">>, start |-> 0, end |-> 800,
     text |-> <<"z">>]

\* ... and the candidate: at a gap of 0, 1.25 or 1.26 s behind a tail that
\* ends at 10 s
CandidateSegments ==
    [id : {<<"s1", 1, 0, 2>>}, sessionId : {"s1", "s2"},
     speaker : {<<"s", "p", "k", "_", "0">>, <<"s", "p", "k", "_", "1">>},
     start : {1000, 1125, 1126}, end : {1126, 1300},
     text : {<<"c">>, <<"c", " ", " ", "d">>}]

CurrentLists ==
    {<<>>} \cup {<<t>> : t \in TailSegments}
           \cup {<<HeadSegment, t>> : t \in TailSegments}

\* entries handed to convertWordsToSegments when the function is applied on
\* its own: words of two speakers (speaker 0 under two spellings), a word
\* with a blank text, a word that ends before it starts, words without one
\* or both timestamps, and a spacing entry
CallEntries ==
    {[type |-> "word", text |-> <<"a">>, start |-> 0, end |-> 100,
      speaker_id |-> Speaker0],
     [type |-> "word", text |-> <<"b">>, start |-> 100, end |-> 200,
      speaker_id |-> Speaker1],
     [type |-> "word", text |-> <<"c">>, start |-> 200, end |-> 300,
      speaker_id |-> <<"0">>],
     [type |-> "word", text |-> <<" ">>, start |-> 300, end |-> 400,
      speaker_id |-> Speaker1],
     [type |-> "word", text |-> <<"d">>, start |-> 400, end |-> 350,
      speaker_id |-> Speaker0],
     [type |-> "word", text |-> <<"e">>, start |-> NaN, end |-> NaN,
      speaker_id |-> Speaker1],
     [type |-> "word", text |-> <<"f">>, start |-> NaN, end |-> 150,
      speaker_id |-> Speaker0],
     [type |-> "word", text |-> <<"g">>, start |-> 50, end |-> NaN,
      speaker_id |-> Speaker0],
     SpacingEntry}

CallWordLists == SeqsUpTo(CallEntries, MaxCallWords)

\* chunk start offsets of the first and of the second window
CallChunkStarts == {0, CHUNK_DURATION_SECONDS * TimeScale}

\* a word of a streaming result; speaker is the diarization index, <<>> when
\* the field is absent
StreamWord(start, end, speaker) == [start |-> start, end |-> end, speaker |-> speaker]

\* one alternative of a streaming result; is_final is "true", "false" or
\* "absent"
Alternative(transcript, final, words) ==
    [transcript |-> transcript, is_final |-> final, words |-> words]

\* messages of the streaming socket: final results of speaker 0 half a second
\* apart, an interim result, results without the flag, a result of speaker 1
\* flagged on the alternative only, a blank result, a result without
\* alternatives, and an error
StreamMessages ==
    {[type |-> "Results", is_final |-> "true",
      alternatives |-> <<Alternative(<<"a">>, "absent",
                                     <<StreamWord(0, 100, <<"0">>)>>)>>],
     [type |-> "Results", is_final |-> "true",
      alternatives |-> <<Alternative(<<"b">>, "absent",
                                     <<StreamWord(150, 250, <<"0">>)>>)>>],
     [type |-> "Results", is_final |-> "false",
      alternatives |-> <<Alternative(<<"c">>, "true",
                                     <<StreamWord(150, 250, <<"0">>)>>)>>],
     [type |-> "Results", is_final |-> "absent",
      alternatives |-> <<Alternative(<<"d">>, "absent", <<>>)>>],
     [type |-> "Results", is_final |-> "absent",
      alternatives |-> <<Alternative(<<"e">>, "false",
                                     <<StreamWord(300, 400, <<"1">>)>>)>>],
     [type |-> "Results", is_final |-> "true",
      alternatives |-> <<Alternative(<<" ">>, "absent",
                                     <<StreamWord(400, 500, <<"1">>)>>)>>],
     [type |-> "Results", is_final |-> "true", alternatives |-> <<>>],
     [type |-> "Error", is_final |-> "absent", alternatives |-> <<>>]}

\* sample rates of an audio context, and the rates asked of downsampleBuffer
InputSampleRates == {8000, 16000, 32000, 44100, 48000}

OutputSampleRates == {8000, TARGET_SAMPLE_RATE}

\* a buffer of n samples; sample i (from 1) has the value i
BufferOf(n) == [i \in 1..n |-> i]

\* sample values are counted in quarters: -6 is -1.5 and 4 is 1.0
SampleScale == 4

SampleValues == (-6)..6

WavSampleLists == SeqsUpTo(SampleValues, MaxWavSamples)

\* ---------------------------------------------------------------------
\* State
\* ---------------------------------------------------------------------
VARIABLES
    page,                 \* "live" (LivePage) or "replay" (ReplayPage)
    sessionId,            \* id of the page's session, prop of the hook
    capturing,            \* the hook's effect is active: enabled && stream
    runIdRef,             \* runIdRef.current
    processorRef,         \* run id bound by the subscribed onaudioprocess, 0 = null
    resuming,             \* startAudioPipeline awaits audioContext.resume()
    isConnected,
    error,                \* error state of the hook
    chunkBuffersRef,      \* accumulator: sequence of buffers [id, len]
    chunkSamplesRef,
    chunkStartOffsetRef,  \* in time units
    chunkSequenceRef,
    uploads,              \* the promise chain uploadQueueRef, oldest first
    segments,             \* segment list of the hook
    rnd,                  \* source of the random id suffixes
    sessionReady,
    sessionReq,           \* startLiveSession is awaited and not cancelled
    processedSegmentsRef, \* ProcessedSet: ids of the registered segments
    chunkBufferRef,       \* pending buffer of the aggregator
    batches,              \* flushChunk invocations that drained the buffer
    claims,
    fallacies,
    factFeedError,
    nextBuf,              \* number of audio callbacks delivered so far
    delivered,            \* history: per run, the buffers its callbacks appended
    completed,            \* history: upload indexes in order of completion
    answered,             \* history: batch indexes in order of their claim responses
    wordsOk,              \* history: every response merged into segments was well formed
    socketRef,            \* streaming hook: state of socketRef.current's connection
    received,             \* streaming hook: the messages the socket delivered so far
    call,                 \* the last application of a pure function: name, arguments, result
    staleResume,          \* runs that were stopped while awaiting audioContext.resume()
    closedRuns,           \* runs whose audio context was closed by cleanup
    orphan,               \* run of a subscribed processor node no ref points to, 0 = none
    showFactFeed,         \* live page: the fact-feed drawer is open
    elapsed               \* time since the flush interval was created or fired

accVars == <<chunkBuffersRef, chunkSamplesRef, chunkStartOffsetRef, chunkSequenceRef>>

captureVars == <<capturing, runIdRef, processorRef, resuming, isConnected>>

flushVars == <<batches, claims, fallacies, factFeedError>>

pageVars == <<sessionReady, sessionReq, processedSegmentsRef, chunkBufferRef, flushVars>>

streamVars == <<socketRef, received>>

raceVars == <<staleResume, closedRuns, orphan>>

timerVars == <<showFactFeed, elapsed>>

vars ==
    <<page, sessionId, captureVars, error, accVars, uploads, segments, rnd, pageVars,
      nextBuf, delivered, completed, answered, wordsOk, streamVars, call, raceVars,
      timerVars>>

Runs == 1..MaxRaceRuns

\* ---------------------------------------------------------------------
\* The chunked transcription hook
\* ---------------------------------------------------------------------
\* the content of the combined array: the chunks copied one after the other
RECURSIVE CopyAll(_)
CopyAll(chunks) ==
    IF chunks = <<>> THEN <<>> ELSE <<Head(chunks)>> \o CopyAll(Tail(chunks))

combineFloat32Arrays(chunks, totalLength) ==
    IF Len(chunks) = 1 THEN <<chunks[1]>> ELSE CopyAll(chunks)

\* seconds (in time units) covered by a number of samples
SecondsOf(samples) == (samples * TimeScale) \div TARGET_SAMPLE_RATE

\* the unit of work appended by enqueueChunkUpload: the arguments of
\* processChunk, the sessionId its closure holds, and its progress (status,
\* outcome, and the word list the boundary answered)
enqueueChunkUpload(samples, total, chunkStart, chunkId, runId, force) ==
    <<[samples |-> samples, total |-> total, chunkStart |-> chunkStart,
       chunkId |-> chunkId, runId |-> runId, force |-> force,
       sessionId |-> sessionId, status |-> "queued", outcome |-> "none",
       response |-> "pending"]>>

\* flushChunk that treats a forced flush like a threshold flush
flushChunkIgnoringForce(force, runId, acc) ==
    IF acc.samples < TARGET_SAMPLE_RATE * CHUNK_DURATION_SECONDS
    THEN [acc |-> acc, enqueued |-> <<>>]
    ELSE [acc |-> [buffers |-> <<>>, samples |-> 0,
                   start |-> acc.start + SecondsOf(acc.samples),
                   seq |-> acc.seq + 1],
          enqueued |->
              enqueueChunkUpload(combineFloat32Arrays(acc.buffers, acc.samples),
                                 acc.samples, acc.start, acc.seq, runId, force)]

\* flushChunk that flushes only above the threshold
flushChunkAboveThreshold(force, runId, acc) ==
    LET totalSamples == acc.samples
        targetSamples == TARGET_SAMPLE_RATE * CHUNK_DURATION_SECONDS
    IN IF totalSamples = 0 THEN [acc |-> acc, enqueued |-> <<>>]
       ELSE IF ~force /\ totalSamples <= targetSamples
       THEN [acc |-> acc, enqueued |-> <<>>]
       ELSE [acc |-> [buffers |-> <<>>, samples |-> 0,
                      start |-> acc.start + SecondsOf(totalSamples),
                      seq |-> acc.seq + 1],
             enqueued |->
                 enqueueChunkUpload(combineFloat32Arrays(acc.buffers, totalSamples),
                                    totalSamples, acc.start, acc.seq, runId, force)]

\* flushChunk(force, runId) on the accumulator acc = [buffers, samples,
\* start, seq]: the accumulator afterwards and the units enqueued
flushChunk(force, runId, acc) ==
    LET totalSamples == acc.samples
        targetSamples == TARGET_SAMPLE_RATE * CHUNK_DURATION_SECONDS
    IN IF totalSamples = 0 THEN [acc |-> acc, enqueued |-> <<>>]
       ELSE IF ~force /\ totalSamples < targetSamples
       THEN [acc |-> acc, enqueued |-> <<>>]
       ELSE [acc |-> [buffers |-> <<>>, samples |-> 0,
                      start |-> acc.start + SecondsOf(totalSamples),
                      seq |-> acc.seq + 1],
             enqueued |->
                 enqueueChunkUpload(combineFloat32Arrays(acc.buffers, totalSamples),
                                    totalSamples, acc.start, acc.seq, runId, force)]

Acc == [buffers |-> chunkBuffersRef, samples |-> chunkSamplesRef,
        start |-> chunkStartOffsetRef, seq |-> chunkSequenceRef]

\* a reset that keeps the sequence number and the start offset
resetChunkStateKeepsPosition ==
    [buffers |-> <<>>, samples |-> 0, start |-> chunkStartOffsetRef,
     seq |-> chunkSequenceRef]

\* resetChunkState
resetChunkState == [buffers |-> <<>>, samples |-> 0, start |-> 0, seq |-> 0]

SetAcc(acc) ==
    /\ chunkBuffersRef' = acc.buffers
    /\ chunkSamplesRef' = acc.samples
    /\ chunkStartOffsetRef' = acc.start
    /\ chunkSequenceRef' = acc.seq

\* the registration effect of the page runs on the rendered segment list;
\* on the replay page only while analysis is enabled
Registered(segs, enabled) ==
    IF page = "replay" /\ ~enabled
    THEN [processed |-> processedSegmentsRef, buffer |-> chunkBufferRef]
    ELSE RegisterSegments(segs, processedSegmentsRef, chunkBufferRef)

SetRegistered(reg) ==
    /\ processedSegmentsRef' = reg.processed
    /\ chunkBufferRef' = reg.buffer

\* a start that takes a run id the first time and reuses it afterwards
NewRunIdSame == IF runIdRef = 0 THEN 1 ELSE runIdRef

\* const runId = ++runIdRef.current
NewRunId == runIdRef + 1

\* a pipeline that subscribes the audio callback whatever the outcome
SubscribesAlways(outcome) == TRUE

\* startAudioPipeline reaches processorRef.current = processorNode only when
\* nothing was thrown and nothing is awaited before it
Subscribes(outcome) == outcome = "subscribed"

\* enabled and a stream are present (on the replay page: Start Analysis).
\* The hook's effect starts a run; startAudioPipeline runs up to its first
\* await, with one of the given outcomes: it throws, suspends on resume(), or
\* subscribes the audio callback.
\* On the replay page the commit also runs the registration effect on the
\* rendered list and the session effect, which requests the session anew.
StartUpTo(outcomes, maxRuns) ==
    /\ ~capturing
    /\ runIdRef < maxRuns
    /\ capturing' = TRUE
    /\ runIdRef' = NewRunId
    /\ SetAcc(resetChunkState)
    /\ segments' = <<>>
    /\ wordsOk' = TRUE
    /\ \E outcome \in outcomes :
          /\ resuming' = (outcome = "suspended")
          /\ processorRef' = IF Subscribes(outcome) THEN NewRunId ELSE processorRef
          /\ isConnected' = (outcome = "subscribed")
          /\ error' = IF outcome = "throws" THEN "init" ELSE "none"
    /\ SetRegistered(Registered(segments, TRUE))
    /\ IF page = "replay"
       THEN sessionReady' = FALSE /\ sessionReq' = TRUE
       ELSE UNCHANGED <<sessionReady, sessionReq>>
    /\ UNCHANGED <<page, sessionId, uploads, rnd, flushVars, nextBuf, delivered,
                   completed>>
    /\ UNCHANGED <<answered, call>>
    /\ UNCHANGED streamVars
    /\ UNCHANGED <<raceVars, timerVars>>

Start(outcomes) == StartUpTo(outcomes, MaxRuns)

\* audioContext.resume() settles while the effect is still active: the
\* pipeline is subscribed, or getAudioTracks() is empty and it throws
Resumed ==
    /\ capturing
    /\ resuming
    /\ resuming' = FALSE
    /\ \E ok \in BOOLEAN :
          /\ processorRef' = IF ok THEN runIdRef ELSE processorRef
          /\ isConnected' = ok
          /\ error' = IF ok THEN error ELSE "init"
    /\ UNCHANGED <<page, sessionId, capturing, runIdRef, accVars, uploads, segments,
                   rnd, pageVars, nextBuf, delivered, completed, wordsOk>>
    /\ UNCHANGED <<answered, call>>
    /\ UNCHANGED streamVars
    /\ UNCHANGED <<raceVars, timerVars>>

\* cleanup closes the audio context of the run and sets cancelled, which
\* the continuation of a pending await does not read before it subscribes
Cleaned ==
    [stale |-> IF resuming THEN staleResume \cup {runIdRef} ELSE staleResume,
     closed |-> closedRuns \cup {runIdRef}]

\* enabled or the stream goes away (on the replay page: a file is selected).
\* The effect's cleanup runs cleanup(runId): force flush, reset, disconnect
\* of the nodes the refs point to, close of the context; the effect body
\* then runs cleanup() on the empty accumulator.  On the replay page the
\* commit also cancels the session request, clears sessionReady (and with
\* it the flush interval) and empties the pending buffer.
Stop ==
    /\ capturing
    /\ LET flushed == flushChunk(TRUE, runIdRef, Acc)
       IN uploads' = uploads \o flushed.enqueued
    /\ SetAcc(resetChunkState)
    /\ capturing' = FALSE
    /\ processorRef' = 0
    /\ resuming' = FALSE
    /\ isConnected' = FALSE
    /\ staleResume' = Cleaned.stale
    /\ closedRuns' = Cleaned.closed
    /\ IF page = "replay"
       THEN /\ sessionReady' = FALSE /\ sessionReq' = FALSE /\ chunkBufferRef' = <<>>
            /\ elapsed' = 0
       ELSE UNCHANGED <<sessionReady, sessionReq, chunkBufferRef, elapsed>>
    /\ UNCHANGED <<page, sessionId, runIdRef, error, segments, rnd,
                   processedSegmentsRef, flushVars, nextBuf, delivered, completed,
                   wordsOk>>
    /\ UNCHANGED <<answered, call>>
    /\ UNCHANGED streamVars
    /\ UNCHANGED <<orphan, showFactFeed>>

\* a handler that adds the samples whatever the current run is
IsStaleCallbackNever(runId) == FALSE

\* if (runIdRef.current !== runId) return
IsStaleCallback(runId) == runIdRef # runId

\* the onaudioprocess handler that startAudioPipeline created for run runId;
\* the resampled buffer has one of the given lengths, and at most limit
\* callbacks are delivered
onaudioprocess(runId, lengths, limit) ==
    /\ nextBuf < limit
    /\ nextBuf' = nextBuf + 1
    /\ \E len \in lengths :
          IF IsStaleCallback(runId) \/ len = 0
          THEN UNCHANGED <<accVars, uploads, delivered>>
          ELSE LET downsampled == [id |-> nextBuf + 1, len |-> len]
                   pushed == [Acc EXCEPT !.buffers = Append(@, downsampled),
                                         !.samples = @ + len]
                   flushed ==
                       IF pushed.samples >= TARGET_SAMPLE_RATE * CHUNK_DURATION_SECONDS
                       THEN flushChunk(FALSE, runId, pushed)
                       ELSE [acc |-> pushed, enqueued |-> <<>>]
               IN /\ SetAcc(flushed.acc)
                  /\ uploads' = uploads \o flushed.enqueued
                  /\ delivered' = [delivered EXCEPT ![runId] = Append(@, downsampled)]
    /\ UNCHANGED <<page, sessionId, captureVars, error, segments, rnd, pageVars,
                   completed, wordsOk>>
    /\ UNCHANGED <<answered, call>>
    /\ UNCHANGED streamVars
    /\ UNCHANGED timerVars

\* an audio callback of the processor node processorRef points to, on a
\* context that is not closed
AudioCallback(lengths, limit) ==
    /\ processorRef # 0
    /\ processorRef \notin closedRuns
    /\ onaudioprocess(processorRef, lengths, limit)
    /\ UNCHANGED raceVars

\* resume() of a run that was stopped meanwhile settles.  Either it rejects,
\* or a node cannot be created on the closed context, and the catch block
\* does nothing since cancelled is set; or the continuation runs to its
\* end: nodes are created on the closed context of that run, the handler is
\* subscribed and sourceRef, processorRef and gainNodeRef are overwritten,
\* so that nothing points to the node of a later run that was subscribed
\* before.
ResumedAfterStop(r) ==
    /\ r \in staleResume
    /\ staleResume' = staleResume \ {r}
    /\ \E ok \in BOOLEAN :
          IF ok
          THEN /\ processorRef' = r
               /\ orphan' = IF processorRef # 0 /\ processorRef \notin closedRuns
                             THEN processorRef
                             ELSE orphan
          ELSE UNCHANGED <<processorRef, orphan>>
    /\ UNCHANGED <<page, sessionId, capturing, runIdRef, resuming, isConnected, error,
                   accVars, uploads, segments, rnd, pageVars, nextBuf, delivered,
                   completed, wordsOk, answered, call, closedRuns>>
    /\ UNCHANGED streamVars
    /\ UNCHANGED timerVars

\* an audio callback of a processor node that no ref points to: cleanup
\* neither disconnects it nor clears its handler.  While its context is
\* open it fires as before; once cleanup has asked for the context to be
\* closed, an event that was already queued is still delivered.
OrphanCallback(lengths, limit) ==
    /\ orphan # 0
    /\ onaudioprocess(orphan, lengths, limit)
    /\ orphan' = IF orphan \in closedRuns THEN 0 ELSE orphan
    /\ UNCHANGED <<staleResume, closedRuns>>

\* a queue whose chain is broken by a rejected unit (no catch before then)
CanStartAfterSuccess(i) ==
    \A j \in 1..(i - 1) : uploads[j].status = "done" /\ uploads[j].outcome # "failed"

\* a queue that starts a unit as soon as the earlier requests are sent
CanStartBehindStarted(i) == \A j \in 1..(i - 1) : uploads[j].status # "queued"

\* no queue: every unit starts at once
CanStartAlways(i) == TRUE

\* enqueueChunkUpload chains each unit behind the previous one: a unit's
\* processChunk starts when every earlier unit has settled
CanStart(i) == \A j \in 1..(i - 1) : uploads[j].status = "done"

\* processChunk up to its first await: the request is sent
BeginUpload(i) ==
    /\ uploads[i].status = "queued"
    /\ CanStart(i)
    /\ uploads' = [uploads EXCEPT ![i].status = "inflight"]
    /\ UNCHANGED <<page, sessionId, captureVars, error, accVars, segments, rnd,
                   pageVars, nextBuf, delivered, completed, wordsOk>>
    /\ UNCHANGED <<answered, call>>
    /\ UNCHANGED streamVars
    /\ UNCHANGED <<raceVars, timerVars>>

\* starts of the "word" entries are finite, non-decreasing and inside the window
RECURSIVE StartsOrdered(_, _, _)
StartsOrdered(words, from, upTo) ==
    IF words = <<>> THEN TRUE
    ELSE IF Head(words).type # "word" THEN StartsOrdered(Tail(words), from, upTo)
    ELSE /\ IsFinite(Head(words).start)
         /\ from <= Head(words).start
         /\ Head(words).start <= upTo
         /\ StartsOrdered(Tail(words), Head(words).start, upTo)

WellFormedWords(words, total) == StartsOrdered(words, 0, SecondsOf(total))

\* no check of the run id after the await
IsCurrentRunAlways(runId) == TRUE

\* the check of the run id inverted
IsCurrentRunInverted(runId) == runIdRef # runId

\* the check after the await: is the unit's run still the current one
IsCurrentRun(runId) == runIdRef = runId

\* the response has no entry of kind "word"
NoWordEntry(words) == \A k \in 1..Len(words) : words[k].type # "word"

\* what a unit remembers of the word list that was handled for it
ResponseKind(words) ==
    IF words = <<>> THEN "empty"
    ELSE IF NoWordEntry(words) THEN "no word"
    ELSE IF \E k \in 1..Len(words) :
               words[k].type = "word" /\ Trim(words[k].text) = <<>>
         THEN "blank word"
    ELSE "words"

\* processChunk after the await, response ok with a word list drawn from
\* responses; the page's registration effect runs on the new list
RespondOk(i, responses) ==
    /\ uploads[i].status = "inflight"
    /\ \E words \in responses :
          LET u == uploads[i]
              chunkSegments ==
                  convertWordsToSegments(words, u.sessionId, u.chunkStart, u.chunkId, rnd)
              merged == IF chunkSegments # <<>>
                        THEN mergeSegments(segments, chunkSegments)
                        ELSE segments
          IN IF ~IsCurrentRun(u.runId)
             THEN /\ uploads' = [uploads EXCEPT ![i].status = "done",
                                                ![i].outcome = "dropped"]
                  /\ UNCHANGED <<segments, error, rnd, wordsOk, processedSegmentsRef,
                                 chunkBufferRef>>
             ELSE /\ uploads' = [uploads EXCEPT ![i].status = "done",
                                                ![i].outcome = "merged",
                                                ![i].response = ResponseKind(words)]
                  /\ segments' = merged
                  /\ error' = "none"
                  /\ rnd' = rnd + Len(chunkSegments)
                  /\ wordsOk' = (wordsOk /\ WellFormedWords(words, u.total))
                  /\ SetRegistered(Registered(merged, capturing))
    /\ completed' = Append(completed, i)
    /\ UNCHANGED <<page, sessionId, captureVars, accVars, sessionReady, sessionReq,
                   flushVars, nextBuf, delivered>>
    /\ UNCHANGED <<answered, call>>
    /\ UNCHANGED streamVars
    /\ UNCHANGED <<raceVars, timerVars>>

\* processChunk after the await: the request failed or the response is not ok
RespondFail(i) ==
    /\ uploads[i].status = "inflight"
    /\ uploads' = [uploads EXCEPT ![i].status = "done", ![i].outcome = "failed"]
    /\ error' = IF IsCurrentRun(uploads[i].runId) THEN "transcribe" ELSE error
    /\ completed' = Append(completed, i)
    /\ UNCHANGED <<page, sessionId, captureVars, accVars, segments, rnd, pageVars,
                   nextBuf, delivered, wordsOk>>
    /\ UNCHANGED <<answered, call>>
    /\ UNCHANGED streamVars
    /\ UNCHANGED <<raceVars, timerVars>>

\* ---------------------------------------------------------------------
\* The page: session start, periodic flush, merge of the analysis results
\* ---------------------------------------------------------------------
\* startLiveSession resolves and the effect was not cancelled
SessionStarted ==
    /\ sessionReq
    /\ sessionReq' = FALSE
    /\ sessionReady' = TRUE
    /\ factFeedError' = "none"
    /\ UNCHANGED <<page, sessionId, captureVars, error, accVars, uploads, segments, rnd,
                   processedSegmentsRef, chunkBufferRef, batches, claims, fallacies,
                   nextBuf, delivered, completed, wordsOk>>
    /\ UNCHANGED <<answered, call>>
    /\ UNCHANGED streamVars
    /\ UNCHANGED <<raceVars, timerVars>>

\* startLiveSession rejects and the effect was not cancelled
SessionStartFailed ==
    /\ sessionReq
    /\ sessionReq' = FALSE
    /\ factFeedError' = "session"
    /\ UNCHANGED <<page, sessionId, captureVars, error, accVars, uploads, segments, rnd,
                   sessionReady, processedSegmentsRef, chunkBufferRef, batches, claims,
                   fallacies, nextBuf, delivered, completed, wordsOk>>
    /\ UNCHANGED <<answered, call>>
    /\ UNCHANGED streamVars
    /\ UNCHANGED <<raceVars, timerVars>>

\* the interval exists while the session is ready (on the replay page: and
\* analysis is enabled)
TimerRunning == sessionReady /\ (page = "replay" => capturing)

\* a tick that does not wait for the session
TickBeforeReady ==
    /\ chunkBufferRef # <<>>
    /\ Len(batches) < MaxBatches
    /\ batches' = Append(batches, [payload |-> chunkBufferRef, pc |-> "claims",
                                   sessionId |-> sessionId, analysis |-> "pending"])
    /\ chunkBufferRef' = <<>>
    /\ UNCHANGED <<page, sessionId, captureVars, error, accVars, uploads, segments, rnd,
                   sessionReady, sessionReq, processedSegmentsRef, claims, fallacies,
                   factFeedError, nextBuf, delivered, completed, wordsOk>>
    /\ UNCHANGED <<answered, call>>
    /\ UNCHANGED streamVars
    /\ UNCHANGED <<raceVars, timerVars>>

\* a tick that sends the pending buffer without emptying it
TickKeepBuffer ==
    /\ TimerRunning
    /\ sessionReady
    /\ chunkBufferRef # <<>>
    /\ Len(batches) < MaxBatches
    /\ batches' = Append(batches, [payload |-> chunkBufferRef, pc |-> "claims",
                                   sessionId |-> sessionId, analysis |-> "pending"])
    /\ UNCHANGED <<page, sessionId, captureVars, error, accVars, uploads, segments, rnd,
                   sessionReady, sessionReq, processedSegmentsRef, chunkBufferRef,
                   claims, fallacies, factFeedError, nextBuf, delivered, completed,
                   wordsOk>>
    /\ UNCHANGED <<answered, call>>
    /\ UNCHANGED streamVars
    /\ UNCHANGED <<raceVars, timerVars>>

\* a timer tick: flushChunk up to its first await.  The buffer is drained
\* into a batch and analyzeSegmentChunk is called with the sessionId of the
\* closure; analysis records how the analysis boundary answered.
Tick ==
    /\ TimerRunning
    /\ sessionReady
    /\ chunkBufferRef # <<>>
    /\ Len(batches) < MaxBatches
    /\ batches' = Append(batches, [payload |-> chunkBufferRef, pc |-> "claims",
                                   sessionId |-> sessionId, analysis |-> "pending"])
    /\ chunkBufferRef' = <<>>
    /\ UNCHANGED <<page, sessionId, captureVars, error, accVars, uploads, segments, rnd,
                   sessionReady, sessionReq, processedSegmentsRef, claims, fallacies,
                   factFeedError, nextBuf, delivered, completed, wordsOk>>
    /\ UNCHANGED <<answered, call>>
    /\ UNCHANGED streamVars
    /\ UNCHANGED <<raceVars, timerVars>>

\* the flush timer with its period: time passes while the interval exists
\* and has not run out (IntervalUnits steps make one period)
TimePasses ==
    /\ TimerRunning
    /\ elapsed < IntervalUnits
    /\ elapsed' = elapsed + 1
    /\ UNCHANGED <<page, sessionId, captureVars, error, accVars, uploads, segments, rnd,
                   pageVars, nextBuf, delivered, completed, wordsOk>>
    /\ UNCHANGED <<answered, call, showFactFeed>>
    /\ UNCHANGED streamVars
    /\ UNCHANGED raceVars

\* the interval has run out: its callback calls flushChunk, which returns
\* at once on an empty buffer, and the next period begins
IntervalFires ==
    /\ TimerRunning
    /\ elapsed = IntervalUnits
    /\ elapsed' = 0
    /\ IF sessionReady /\ chunkBufferRef # <<>>
       THEN /\ Len(batches) < MaxBatches
            /\ batches' = Append(batches,
                                 [payload |-> chunkBufferRef, pc |-> "claims",
                                  sessionId |-> sessionId, analysis |-> "pending"])
            /\ chunkBufferRef' = <<>>
       ELSE UNCHANGED <<batches, chunkBufferRef>>
    /\ UNCHANGED <<page, sessionId, captureVars, error, accVars, uploads, segments, rnd,
                   sessionReady, sessionReq, processedSegmentsRef, claims, fallacies,
                   factFeedError, nextBuf, delivered, completed, wordsOk>>
    /\ UNCHANGED <<answered, call, showFactFeed>>
    /\ UNCHANGED streamVars
    /\ UNCHANGED raceVars

\* handleToggleFactFeed on the live page: showFactFeed is a dependency of
\* flushChunk, and flushChunk one of the interval effect, whose cleanup
\* clears the interval before the effect creates a new one
ToggleFactFeed ==
    /\ page = "live"
    /\ showFactFeed' = ~showFactFeed
    /\ elapsed' = 0
    /\ UNCHANGED <<sessionId, captureVars, error, accVars, uploads, segments, rnd,
                   pageVars, nextBuf, delivered, completed, wordsOk>>
    /\ UNCHANGED <<page, answered, call>>
    /\ UNCHANGED streamVars
    /\ UNCHANGED raceVars

\* a continuation that drops the response once the timer is stopped
AnalyzeOkUnlessTimerStopped(b) ==
    /\ batches[b].pc = "claims"
    /\ \E analyzed \in ClaimLists :
          claims' = IF analyzed # <<>> /\ TimerRunning
                    THEN MergeAnalyzed(claims, analyzed)
                    ELSE claims
    /\ factFeedError' = "none"
    /\ batches' = [batches EXCEPT ![b].pc = "fallacies", ![b].analysis = "ok"]
    /\ UNCHANGED <<page, sessionId, captureVars, error, accVars, uploads, segments, rnd,
                   sessionReady, sessionReq, processedSegmentsRef, chunkBufferRef,
                   fallacies, nextBuf, delivered, completed, wordsOk>>
    /\ answered' = Append(answered, b)
    /\ UNCHANGED call
    /\ UNCHANGED streamVars
    /\ UNCHANGED <<raceVars, timerVars>>

\* flushChunk after its first await: analyzeSegmentChunk returned analyzed;
\* the claims are merged and analyzeFallacies is called
AnalyzeOk(b) ==
    /\ batches[b].pc = "claims"
    /\ \E analyzed \in ClaimLists :
          claims' = IF analyzed # <<>> THEN MergeAnalyzed(claims, analyzed) ELSE claims
    /\ factFeedError' = "none"
    /\ batches' = [batches EXCEPT ![b].pc = "fallacies", ![b].analysis = "ok"]
    /\ UNCHANGED <<page, sessionId, captureVars, error, accVars, uploads, segments, rnd,
                   sessionReady, sessionReq, processedSegmentsRef, chunkBufferRef,
                   fallacies, nextBuf, delivered, completed, wordsOk>>
    /\ answered' = Append(answered, b)
    /\ UNCHANGED call
    /\ UNCHANGED streamVars
    /\ UNCHANGED <<raceVars, timerVars>>

\* a catch branch that puts the batch back on the pending buffer
AnalyzeFailRequeue(b) ==
    /\ batches[b].pc = "claims"
    /\ factFeedError' = "analyze"
    /\ batches' = [batches EXCEPT ![b].pc = "fallacies", ![b].analysis = "failed"]
    /\ chunkBufferRef' = batches[b].payload \o chunkBufferRef
    /\ UNCHANGED <<page, sessionId, captureVars, error, accVars, uploads, segments, rnd,
                   sessionReady, sessionReq, processedSegmentsRef,
                   claims, fallacies, nextBuf, delivered, completed, wordsOk>>
    /\ answered' = Append(answered, b)
    /\ UNCHANGED call
    /\ UNCHANGED streamVars
    /\ UNCHANGED <<raceVars, timerVars>>

\* flushChunk after its first await: analyzeSegmentChunk threw
AnalyzeFail(b) ==
    /\ batches[b].pc = "claims"
    /\ factFeedError' = "analyze"
    /\ batches' = [batches EXCEPT ![b].pc = "fallacies", ![b].analysis = "failed"]
    /\ UNCHANGED <<page, sessionId, captureVars, error, accVars, uploads, segments, rnd,
                   sessionReady, sessionReq, processedSegmentsRef, chunkBufferRef,
                   claims, fallacies, nextBuf, delivered, completed, wordsOk>>
    /\ answered' = Append(answered, b)
    /\ UNCHANGED call
    /\ UNCHANGED streamVars
    /\ UNCHANGED <<raceVars, timerVars>>

\* flushChunk after its second await: analyzeFallacies returned or threw
FallaciesDone(b) ==
    /\ batches[b].pc = "fallacies"
    /\ \E insights \in FallacyLists :
          fallacies' = IF insights # <<>>
                       THEN MergeAnalyzed(fallacies, insights)
                       ELSE fallacies
    /\ batches' = [batches EXCEPT ![b].pc = "done"]
    /\ UNCHANGED <<page, sessionId, captureVars, error, accVars, uploads, segments, rnd,
                   sessionReady, sessionReq, processedSegmentsRef, chunkBufferRef,
                   claims, factFeedError, nextBuf, delivered, completed, wordsOk>>
    /\ UNCHANGED <<answered, call>>
    /\ UNCHANGED streamVars
    /\ UNCHANGED <<raceVars, timerVars>>

\* the component renders with another sessionId: every effect that depends
\* on it runs again in one commit.  The hook's effect (through cleanup,
\* flushChunk, enqueueChunkUpload, processChunk) first runs its cleanup with
\* the closures of the old render, then starts a new run if capture is on.
\* The page's reset effect empties what it resets, and its session effect
\* cancels the pending request and asks for the session anew.
SessionChanged(outcomes) ==
    /\ sessionId = "s1"
    /\ sessionId' = "s2"
    /\ IF capturing
       THEN /\ runIdRef < MaxRuns
            /\ LET flushed == flushChunk(TRUE, runIdRef, Acc)
               IN uploads' = uploads \o flushed.enqueued
            /\ SetAcc(resetChunkState)
            /\ runIdRef' = NewRunId
            /\ segments' = <<>>
            /\ wordsOk' = TRUE
            /\ staleResume' = Cleaned.stale
            /\ closedRuns' = Cleaned.closed
            /\ \E outcome \in outcomes :
                  /\ resuming' = (outcome = "suspended")
                  /\ processorRef' = IF outcome = "subscribed" THEN NewRunId ELSE 0
                  /\ isConnected' = (outcome = "subscribed")
                  /\ error' = IF outcome = "throws" THEN "init" ELSE "none"
       ELSE UNCHANGED <<uploads, accVars, runIdRef, segments, wordsOk, resuming,
                        processorRef, isConnected, error, staleResume, closedRuns>>
    /\ processedSegmentsRef' = {}
    /\ claims' = <<>>
    /\ fallacies' = <<>>
    /\ chunkBufferRef' = IF page = "live" THEN <<>> ELSE chunkBufferRef
    /\ sessionReady' = FALSE
    /\ sessionReq' = IF page = "live" THEN TRUE ELSE capturing
    /\ UNCHANGED <<page, capturing, rnd, batches, factFeedError, nextBuf, delivered,
                   completed, answered, call>>
    /\ UNCHANGED streamVars
    /\ UNCHANGED <<orphan, timerVars>>

\* mergeSegments applied once to a list and one candidate
CallMergeSegments ==
    /\ call.fn = "none"
    /\ \E current \in CurrentLists : \E candidate \in CandidateSegments :
          call' = [fn |-> "mergeSegments", current |-> current,
                   incoming |-> <<candidate>>,
                   result |-> mergeSegments(current, <<candidate>>)]
    /\ UNCHANGED <<page, sessionId, captureVars, error, accVars, uploads, segments, rnd,
                   pageVars, nextBuf, delivered, completed, answered, wordsOk>>
    /\ UNCHANGED streamVars
    /\ UNCHANGED <<raceVars, timerVars>>

\* convertWordsToSegments applied once to a word list and a chunk start offset
CallConvertWordsToSegments ==
    /\ call.fn = "none"
    /\ \E words \in CallWordLists : \E chunkStart \in CallChunkStarts :
          call' = [fn |-> "convertWordsToSegments", words |-> words,
                   chunkStart |-> chunkStart,
                   result |-> convertWordsToSegments(words, "s1", chunkStart, 0, 0)]
    /\ UNCHANGED <<page, sessionId, captureVars, error, accVars, uploads, segments, rnd,
                   pageVars, nextBuf, delivered, completed, answered, wordsOk>>
    /\ UNCHANGED streamVars
    /\ UNCHANGED <<raceVars, timerVars>>

\* ---------------------------------------------------------------------
\* Resampling and encoding of a window
\* ---------------------------------------------------------------------
\* a rounding that drops the fraction
RoundDown(p, q) == p \div q

\* Math.round(p / q) for q > 0: the nearest integer, a half rounds up
Round(p, q) == (2 * p + q) \div (2 * q)

RECURSIVE SumFrom(_, _, _)
\* buffer[from] + ... + buffer[upTo - 1], indexes counted from 0
SumFrom(buffer, from, upTo) ==
    IF from >= upTo THEN 0 ELSE buffer[from + 1] + SumFrom(buffer, from + 1, upTo)

\* the while loop of downsampleBuffer; sampleRateRatio is inRate / outRate.
\* An output sample is kept as the sum and the count of its window (its
\* value is accum / count, or 0 for an empty window) with the offset of the
\* window in the input.
RECURSIVE DownsampleLoop(_, _, _, _, _, _)
DownsampleLoop(buffer, inRate, outRate, newLength, offsetBuffer, result) ==
    IF Len(result) >= newLength THEN result
    ELSE LET nextOffsetBuffer == Round((Len(result) + 1) * inRate, outRate)
             upTo == IF nextOffsetBuffer < Len(buffer) THEN nextOffsetBuffer
                     ELSE Len(buffer)
             count == IF upTo > offsetBuffer THEN upTo - offsetBuffer ELSE 0
         IN DownsampleLoop(buffer, inRate, outRate, newLength, nextOffsetBuffer,
                           Append(result,
                                  [accum |-> SumFrom(buffer, offsetBuffer, upTo),
                                   count |-> count,
                                   offset |-> offsetBuffer]))

downsampleBuffer(buffer, inputSampleRate, outputSampleRate) ==
    IF outputSampleRate = inputSampleRate THEN buffer
    ELSE IF outputSampleRate > inputSampleRate THEN buffer
    ELSE DownsampleLoop(buffer, inputSampleRate, outputSampleRate,
                        Round(Len(buffer) * outputSampleRate, inputSampleRate),
                        0, <<>>)

\* Math.max(-1, Math.min(1, sample)) on a sample counted in quarters
Clamp(sample) ==
    IF sample > SampleScale THEN SampleScale
    ELSE IF sample < -SampleScale THEN -SampleScale
    ELSE sample

\* the integer part of p / q, towards zero (q > 0)
Truncate(p, q) == IF p >= 0 THEN p \div q ELSE -((-p) \div q)

\* DataView.setInt16 of the number p / q: the fraction is dropped and the
\* integer wraps into 16 bits
ToInt16(p, q) == ((Truncate(p, q) + 32768) % 65536) - 32768

\* the 16-bit value createWavBlob writes for one sample
WavSample(s) ==
    LET sample == Clamp(s)
    IN IF sample < 0 THEN ToInt16(sample * 32768, SampleScale)
       ELSE ToInt16(sample * 32767, SampleScale)

RECURSIVE WavData(_)
WavData(samples) ==
    IF samples = <<>> THEN <<>> ELSE <<WavSample(Head(samples))>> \o WavData(Tail(samples))

\* createWavBlob: the sizes of the header and the 16-bit samples
createWavBlob(samples, sampleRate) ==
    [byteLength |-> 44 + Len(samples) * 2,
     riffSize |-> 36 + Len(samples) * 2,
     sampleRate |-> sampleRate,
     byteRate |-> sampleRate * 2,
     dataSize |-> Len(samples) * 2,
     data |-> WavData(samples)]

\* downsampleBuffer applied once to a buffer and two rates
CallDownsampleBuffer ==
    /\ call.fn = "none"
    /\ \E n \in 0..MaxSamples : \E inRate \in InputSampleRates :
       \E outRate \in OutputSampleRates :
          call' = [fn |-> "downsampleBuffer", buffer |-> BufferOf(n),
                   inputSampleRate |-> inRate, outputSampleRate |-> outRate,
                   result |-> downsampleBuffer(BufferOf(n), inRate, outRate)]
    /\ UNCHANGED <<page, sessionId, captureVars, error, accVars, uploads, segments, rnd,
                   pageVars, nextBuf, delivered, completed, answered, wordsOk>>
    /\ UNCHANGED streamVars
    /\ UNCHANGED <<raceVars, timerVars>>

\* createWavBlob applied once to a list of samples
CallCreateWavBlob ==
    /\ call.fn = "none"
    /\ \E samples \in WavSampleLists :
          call' = [fn |-> "createWavBlob", samples |-> samples,
                   result |-> createWavBlob(samples, TARGET_SAMPLE_RATE)]
    /\ UNCHANGED <<page, sessionId, captureVars, error, accVars, uploads, segments, rnd,
                   pageVars, nextBuf, delivered, completed, answered, wordsOk>>
    /\ UNCHANGED streamVars
    /\ UNCHANGED <<raceVars, timerVars>>

\* ---------------------------------------------------------------------
\* The streaming transcription hook
\* ---------------------------------------------------------------------
\* a result flagged final whatever it carries
isFinalAlways(data) == TRUE

\* data.is_final ?? transcript?.is_final ?? true
isFinal(data) ==
    IF data.is_final # "absent" THEN data.is_final = "true"
    ELSE IF data.alternatives[1].is_final # "absent"
         THEN data.alternatives[1].is_final = "true"
    ELSE TRUE

\* the segment ws.onmessage builds from a result; NaN stands for a timestamp
\* the message leaves out
StreamSegment(data) ==
    LET transcript == data.alternatives[1]
        words == transcript.words
        start == IF words # <<>> /\ words[1].start # NaN THEN words[1].start ELSE 0
        end == IF words # <<>> /\ words[Len(words)].end # NaN
               THEN words[Len(words)].end
               ELSE start + TimeScale
        speaker == IF words # <<>> /\ words[1].speaker # <<>>
                   THEN SpkPrefix \o words[1].speaker
                   ELSE SpkPrefix \o <<"0">>
    IN [id |-> <<"seg", Len(received), rnd>>,
        sessionId |-> sessionId,
        speaker |-> speaker,
        start |-> start,
        end |-> end,
        text |-> Trim(transcript.transcript)]

\* enabled and a stream are present: the effect empties the list and
\* setupDeepgram runs up to the fetch of the token.  The page's effects run
\* as they do for the chunked hook.
StreamStart ==
    /\ ~capturing
    /\ socketRef = "none"
    /\ capturing' = TRUE
    /\ socketRef' = "fetching"
    /\ segments' = <<>>
    /\ error' = "none"
    /\ SetRegistered(Registered(segments, TRUE))
    /\ IF page = "replay"
       THEN sessionReady' = FALSE /\ sessionReq' = TRUE
       ELSE UNCHANGED <<sessionReady, sessionReq>>
    /\ UNCHANGED <<page, sessionId, runIdRef, processorRef, resuming, isConnected,
                   accVars, uploads, rnd, flushVars, nextBuf, delivered, completed,
                   answered, wordsOk, received, call>>
    /\ UNCHANGED <<raceVars, timerVars>>

\* the token request settles while the effect is mounted: the socket is
\* created, or the request failed and the catch reports it
StreamTokenFetched ==
    /\ capturing
    /\ socketRef = "fetching"
    /\ \E ok \in BOOLEAN :
          /\ socketRef' = IF ok THEN "connecting" ELSE "none"
          /\ error' = IF ok THEN error ELSE "init"
    /\ UNCHANGED <<page, sessionId, captureVars, accVars, uploads, segments, rnd,
                   pageVars, nextBuf, delivered, completed, answered, wordsOk,
                   received, call>>
    /\ UNCHANGED <<raceVars, timerVars>>

\* ws.onopen: connected; startMediaRecorder may throw
StreamOpened ==
    /\ capturing
    /\ socketRef = "connecting"
    /\ socketRef' = "open"
    /\ isConnected' = TRUE
    /\ \E started \in BOOLEAN : error' = IF started THEN "none" ELSE "recorder"
    /\ UNCHANGED <<page, sessionId, capturing, runIdRef, processorRef, resuming,
                   accVars, uploads, segments, rnd, pageVars, nextBuf, delivered,
                   completed, answered, wordsOk, received, call>>
    /\ UNCHANGED <<raceVars, timerVars>>

\* ws.onmessage with a message drawn from messages; the page's registration
\* effect runs on the new list
StreamMessage(messages) ==
    /\ capturing
    /\ socketRef = "open"
    /\ Len(received) < MaxMessages
    /\ \E data \in messages :
          /\ received' = Append(received, data)
          /\ IF data.type = "Results" /\ data.alternatives # <<>>
             THEN IF Trim(data.alternatives[1].transcript) = <<>> \/ ~isFinal(data)
                  THEN UNCHANGED <<segments, rnd, error, processedSegmentsRef,
                                   chunkBufferRef>>
                  ELSE /\ segments' = Append(segments, StreamSegment(data))
                       /\ rnd' = rnd + 1
                       /\ SetRegistered(Registered(Append(segments, StreamSegment(data)),
                                                   capturing))
                       /\ UNCHANGED error
             ELSE IF data.type \in {"Error", "FatalError"}
             THEN /\ error' = "transcription"
                  /\ UNCHANGED <<segments, rnd, processedSegmentsRef, chunkBufferRef>>
             ELSE UNCHANGED <<segments, rnd, error, processedSegmentsRef, chunkBufferRef>>
    /\ UNCHANGED <<page, sessionId, captureVars, accVars, uploads, sessionReady,
                   sessionReq, flushVars, nextBuf, delivered, completed, answered,
                   wordsOk, socketRef, call>>
    /\ UNCHANGED <<raceVars, timerVars>>

\* ws.onclose while the effect is mounted
StreamClosed ==
    /\ capturing
    /\ socketRef \in {"connecting", "open"}
    /\ socketRef' = "closed"
    /\ isConnected' = FALSE
    /\ \E wasClean \in BOOLEAN : error' = IF wasClean THEN error ELSE "transcription"
    /\ UNCHANGED <<page, sessionId, capturing, runIdRef, processorRef, resuming,
                   accVars, uploads, segments, rnd, pageVars, nextBuf, delivered,
                   completed, answered, wordsOk, received, call>>
    /\ UNCHANGED <<raceVars, timerVars>>

\* enabled or the stream goes away: mounted = false and cleanup() closes the
\* socket; the handlers of the old socket are no-ops from now on
StreamStop ==
    /\ capturing
    /\ capturing' = FALSE
    /\ socketRef' = "none"
    /\ isConnected' = FALSE
    /\ IF page = "replay"
       THEN sessionReady' = FALSE /\ sessionReq' = FALSE /\ chunkBufferRef' = <<>>
       ELSE UNCHANGED <<sessionReady, sessionReq, chunkBufferRef>>
    /\ UNCHANGED <<page, sessionId, runIdRef, processorRef, resuming, error, accVars,
                   uploads, segments, rnd, processedSegmentsRef, flushVars, nextBuf,
                   delivered, completed, answered, wordsOk, received, call>>
    /\ UNCHANGED <<raceVars, timerVars>>

\* ---------------------------------------------------------------------
\* Specifications
\* ---------------------------------------------------------------------
Init ==
    /\ page \in {"live", "replay"}
    /\ sessionId = "s1"
    /\ capturing = FALSE
    /\ runIdRef = 0
    /\ processorRef = 0
    /\ resuming = FALSE
    /\ isConnected = FALSE
    /\ error = "none"
    /\ chunkBuffersRef = <<>>
    /\ chunkSamplesRef = 0
    /\ chunkStartOffsetRef = 0
    /\ chunkSequenceRef = 0
    /\ uploads = <<>>
    /\ segments = <<>>
    /\ rnd = 0
    /\ sessionReady = FALSE
    /\ sessionReq = (page = "live")
    /\ processedSegmentsRef = {}
    /\ chunkBufferRef = <<>>
    /\ batches = <<>>
    /\ claims = <<>>
    /\ fallacies = <<>>
    /\ factFeedError = "none"
    /\ nextBuf = 0
    /\ delivered = [r \in Runs |-> <<>>]
    /\ completed = <<>>
    /\ answered = <<>>
    /\ wordsOk = TRUE
    /\ socketRef = "none"
    /\ received = <<>>
    /\ call = [fn |-> "none"]
    /\ staleResume = {}
    /\ closedRuns = {}
    /\ orphan = 0
    /\ showFactFeed = FALSE
    /\ elapsed = 0

\* outcomes of the synchronous part of startAudioPipeline
StartOutcomes == {"throws", "suspended", "subscribed"}

\* the capture and transcription pipeline with every buffer length and the
\* plain responses of the transcription boundary
NextCapture ==
    \/ Start(StartOutcomes)
    \/ Resumed
    \/ Stop
    \/ AudioCallback(BufferLengths, MaxCallbacks)
    \/ \E i \in 1..Len(uploads) : BeginUpload(i)
    \/ \E i \in 1..Len(uploads) : RespondOk(i, PageWordLists)
    \/ \E i \in 1..Len(uploads) : RespondFail(i)

Spec == Init /\ [][NextCapture]_vars

\* the initial state on the live page
InitMerge == Init /\ page = "live"

\* the pipeline as the live page mounts it, with whole-window buffers, an
\* audio context that is running at start, and every response of the
\* transcription boundary
NextMerge ==
    \/ Start({"subscribed"})
    \/ Stop
    \/ AudioCallback(WindowLengths, MaxWindowBuffers)
    \/ \E i \in 1..Len(uploads) : BeginUpload(i)
    \/ \E i \in 1..Len(uploads) : RespondOk(i, WordLists)
    \/ \E i \in 1..Len(uploads) : RespondFail(i)

SpecMerge == InitMerge /\ [][NextMerge]_vars

\* the pipeline together with the page's aggregator
Next ==
    \/ Start({"subscribed"})
    \/ Stop
    \/ AudioCallback(WindowLengths, MaxWindowBuffers)
    \/ \E i \in 1..Len(uploads) : BeginUpload(i)
    \/ \E i \in 1..Len(uploads) : RespondOk(i, PageWordLists)
    \/ \E i \in 1..Len(uploads) : RespondFail(i)
    \/ SessionStarted
    \/ SessionStartFailed
    \/ Tick
    \/ \E b \in 1..Len(batches) : AnalyzeOk(b)
    \/ \E b \in 1..Len(batches) : AnalyzeFail(b)
    \/ \E b \in 1..Len(batches) : FallaciesDone(b)

SpecPage == Init /\ [][Next]_vars

\* the pipeline and the aggregator of a page whose session id changes once
NextSession ==
    \/ Next
    \/ SessionChanged({"subscribed"})

SpecSession == Init /\ [][NextSession]_vars

\* the pipeline on the live page with responses of every shape
NextWords ==
    \/ Start({"subscribed"})
    \/ Stop
    \/ AudioCallback(WindowLengths, MaxWindowBuffers)
    \/ \E i \in 1..Len(uploads) : BeginUpload(i)
    \/ \E i \in 1..Len(uploads) : RespondOk(i, TimedWordLists)
    \/ \E i \in 1..Len(uploads) : RespondFail(i)

SpecWords == InitMerge /\ [][NextWords]_vars

\* the streaming hook as a page mounts it
NextStreaming ==
    \/ StreamStart
    \/ StreamTokenFetched
    \/ StreamOpened
    \/ StreamMessage(StreamMessages)
    \/ StreamClosed
    \/ StreamStop

SpecStreaming == Init /\ [][NextStreaming]_vars

\* the pure functions of the hook applied on their own
NextCalls ==
    \/ CallMergeSegments
    \/ CallConvertWordsToSegments
    \/ CallDownsampleBuffer
    \/ CallCreateWavBlob

SpecCalls == Init /\ [][NextCalls]_vars

\* the capture pipeline under the scheduling of the event loop: a queued
\* unit whose predecessors have settled is started, and a request that is
\* in flight settles
FairSpec ==
    /\ Spec
    /\ WF_vars(\E i \in 1..Len(uploads) : BeginUpload(i))
    /\ WF_vars(\E i \in 1..Len(uploads) : RespondOk(i, PageWordLists) \/ RespondFail(i))

\* the live page's pipeline and flush timer under the scheduling of the
\* event loop: uploads start and settle, the session-start call resolves,
\* and the interval fires while it exists
NextDispatch ==
    \/ Start({"subscribed"})
    \/ Stop
    \/ AudioCallback(WindowLengths, MaxWindowBuffers)
    \/ \E i \in 1..Len(uploads) : BeginUpload(i)
    \/ \E i \in 1..Len(uploads) : RespondOk(i, PageWordLists)
    \/ \E i \in 1..Len(uploads) : RespondFail(i)
    \/ SessionStarted
    \/ Tick

FairDispatch ==
    /\ InitMerge
    /\ [][NextDispatch]_vars
    /\ WF_vars(\E i \in 1..Len(uploads) : BeginUpload(i))
    /\ WF_vars(\E i \in 1..Len(uploads) : RespondOk(i, PageWordLists) \/ RespondFail(i))
    /\ WF_vars(SessionStarted)
    /\ WF_vars(Tick)

\* the capture pipeline with the continuations of starts that were stopped
\* while they awaited resume(), and the callbacks of nodes that lost their
\* ref, over three runs
NextRace ==
    \/ StartUpTo({"suspended", "subscribed"}, MaxRaceRuns)
    \/ Resumed
    \/ Stop
    \/ AudioCallback(WindowLengths, MaxWindowBuffers)
    \/ OrphanCallback(WindowLengths, MaxWindowBuffers)
    \/ \E r \in Runs : ResumedAfterStop(r)

SpecRace == InitMerge /\ [][NextRace]_vars

\* the live page with the period of its flush timer and the drawer toggle,
\* under the scheduling of the event loop: time passes and an interval that
\* has run out fires, unless it is cleared first
NextTimer ==
    \/ Start({"subscribed"})
    \/ Stop
    \/ AudioCallback(WindowLengths, MaxWindowBuffers)
    \/ \E i \in 1..Len(uploads) : BeginUpload(i)
    \/ \E i \in 1..Len(uploads) : RespondOk(i, PageWordLists)
    \/ \E i \in 1..Len(uploads) : RespondFail(i)
    \/ SessionStarted
    \/ TimePasses
    \/ IntervalFires
    \/ ToggleFactFeed

FairTimer ==
    /\ InitMerge
    /\ [][NextTimer]_vars
    /\ WF_vars(\E i \in 1..Len(uploads) : BeginUpload(i))
    /\ WF_vars(\E i \in 1..Len(uploads) : RespondOk(i, PageWordLists) \/ RespondFail(i))
    /\ WF_vars(SessionStarted)
    /\ WF_vars(TimePasses)
    /\ WF_vars(IntervalFires)

\* ---------------------------------------------------------------------
\* Properties
\* ---------------------------------------------------------------------
Settles(i) == uploads[i].status = "inflight" /\ uploads'[i].status = "done"

StartStep == ~capturing /\ capturing'

StopStep == capturing /\ ~capturing'

\* C1: the windows settle (merged, dropped or failed) in the order in which
\* they were enqueued, whatever the order and delay of the responses.
C1_MergedInEnqueueOrder ==
    \A k \in 1..(Len(completed) - 1) : completed[k] < completed[k + 1]

C1_TwoWindowsMerged ==
    /\ Len(completed) >= 2
    /\ uploads[1].outcome = "merged"
    /\ uploads[2].outcome = "merged"
    /\ Len(segments) >= 1

\* C2: the response of a window whose run id is no longer the current one
\* leaves the segment list unchanged.
C2_StaleRunDiscarded ==
    [][\A i \in 1..Len(uploads) :
          (Settles(i) /\ uploads[i].runId # runIdRef) => segments' = segments]_vars

C2_StaleDropped ==
    \E i \in 1..Len(uploads) :
        /\ uploads[i].outcome = "dropped"
        /\ uploads[i].runId = 1
        /\ runIdRef = 2

SegmentsOrdered ==
    \A k \in 1..(Len(segments) - 1) : segments[k].start <= segments[k + 1].start

\* C3 as stated: after any sequence of transcriptions and merges the segment
\* list is ordered by start.
C3_SegmentsOrdered == SegmentsOrdered

\* C3 amended: the segment list is ordered by start as long as every merged
\* response lists its words with finite, non-decreasing starts that lie
\* inside the window.
C3_SegmentsOrderedIfWordsOrdered == wordsOk => SegmentsOrdered

C3_TwoWindowsInOrder ==
    /\ wordsOk
    /\ Len(segments) >= 2
    /\ segments[1].start < segments[2].start
    /\ \E i \in 1..Len(uploads) : uploads[i].chunkId = 1 /\ uploads[i].outcome = "merged"

AllIds(segs) == {segs[k].id : k \in 1..Len(segs)}

RECURSIVE Dispatched(_)
Dispatched(bs) ==
    IF bs = <<>> THEN <<>> ELSE Head(bs).payload \o Dispatched(Tail(bs))

\* C4: no segment id is held by two batches, twice by one batch, or by a
\* batch and the pending buffer: a registered id is never buffered again.
C4_DispatchedOnce ==
    LET held == Dispatched(batches) \o chunkBufferRef
    IN  Cardinality(AllIds(held)) = Len(held)

C4_SegmentSeenAgain ==
    /\ Len(batches) >= 2
    /\ \E k \in 1..Len(segments) : segments[k].id \in AllIds(batches[1].payload)
    /\ AllIds(segments) \subseteq processedSegmentsRef

RECURSIVE WindowsOf(_, _)
WindowsOf(run, units) ==
    IF units = <<>> THEN <<>>
    ELSE (IF Head(units).runId = run THEN Head(units).samples ELSE <<>>)
             \o WindowsOf(run, Tail(units))

\* C5: for every run, the emitted windows in order, followed by what the
\* accumulator of the current run still holds, are exactly the buffers the
\* run's callbacks delivered, in arrival order.
C5_WindowsTileTheSamples ==
    \A r \in Runs :
        WindowsOf(r, uploads) \o (IF r = runIdRef THEN chunkBuffersRef ELSE <<>>)
            = delivered[r]

C5_ThresholdAndFinalWindow ==
    /\ ~capturing
    /\ \E i \in 1..Len(uploads) : \E j \in 1..Len(uploads) :
          /\ i < j
          /\ uploads[i].runId = uploads[j].runId
          /\ ~uploads[i].force
          /\ uploads[j].force
          /\ uploads[j].total < TARGET_SAMPLE_RATE * CHUNK_DURATION_SECONDS

\* C6 as stated: whatever follows the stop, the final window is merged once
\* the transcription boundary has answered it successfully.
C6_FinalWindowNeverLost ==
    \A i \in 1..Len(uploads) :
        (uploads[i].force /\ uploads[i].status = "done")
            => uploads[i].outcome \in {"merged", "failed"}

FinalWindow(i) == i <= Len(uploads) /\ uploads[i].force

FinalWindowHandled(i) ==
    /\ i <= Len(uploads)
    /\ (uploads[i].outcome \in {"merged", "failed"} \/ runIdRef # uploads[i].runId)

\* C6 amended: the final window flushed by stop() is eventually transcribed
\* and merged, unless the boundary fails it or a start() has advanced the
\* run id before its response is handled.
C6_FinalWindowEventuallyMerged ==
    \A i \in 1..MaxCallbacks : FinalWindow(i) ~> FinalWindowHandled(i)

C6_FinalWindowMerged ==
    /\ ~capturing
    /\ \E i \in 1..Len(uploads) : uploads[i].force /\ uploads[i].outcome = "merged"
    /\ segments # <<>>

\* C7 as stated: once capture is stopped, an upload that settles leaves the
\* segment list unchanged, also when no start() has followed.
C7_StoppedUploadsAreNoOps ==
    [][\A i \in 1..Len(uploads) :
          (Settles(i) /\ ~capturing) => segments' = segments]_vars

\* C7 amended: stop() leaves the run id unchanged and start() advances it
\* past the run id of every upload that is queued or in flight; the segment
\* list changes only at a start() or when an upload of the current run
\* settles.
C7_OnlyStartAdvancesRunId ==
    [][/\ StopStep => runIdRef' = runIdRef
       /\ StartStep =>
             \A i \in 1..Len(uploads) :
                 uploads[i].status # "done" => uploads[i].runId < runIdRef'
       /\ (segments' # segments /\ ~StartStep) =>
             \E i \in 1..Len(uploads) : Settles(i) /\ uploads[i].runId = runIdRef]_vars

C7_MergedAfterStop ==
    /\ ~capturing
    /\ runIdRef = 1
    /\ segments # <<>>
    /\ \E i \in 1..Len(uploads) : uploads[i].force /\ uploads[i].outcome = "merged"
    /\ \E i \in 1..Len(uploads) : ~uploads[i].force /\ uploads[i].outcome = "merged"

InFlight == {i \in 1..Len(uploads) : uploads[i].status = "inflight"}

\* C8: at most one transcription request is in flight, and every window
\* enqueued before it has settled.
C8_OneRequestInFlight ==
    /\ Cardinality(InFlight) <= 1
    /\ \A i \in InFlight : \A j \in 1..(i - 1) : uploads[j].status = "done"

C8_QueuedBehindOlderRun ==
    \E i \in 1..Len(uploads) : \E j \in 1..Len(uploads) :
        /\ i < j
        /\ uploads[i].status = "inflight"
        /\ uploads[j].status = "queued"
        /\ uploads[i].runId # uploads[j].runId

\* C9: the claim list is sorted by non-decreasing start.
C9_ClaimsSortedByStart ==
    \A k \in 1..(Len(claims) - 1) : StartKey(claims[k]) <= StartKey(claims[k + 1])

C9_LaterBatchAnsweredFirst ==
    /\ answered = <<2, 1>>
    /\ \E k \in 1..(Len(claims) - 1) : StartKey(claims[k]) < StartKey(claims[k + 1])

\* C10: no two entries of the claim list have the same id.
C10_ClaimIdsUnique ==
    \A j \in 1..Len(claims) : \A k \in 1..Len(claims) :
        j # k => claims[j].id # claims[k].id

\* C11: when the analysis of a batch fails, an error is reported and the
\* claim list and the pending buffer are left as they are; from then on no
\* segment of the failed batch is in the pending buffer or in another batch.
C11_FailedBatchDiscarded ==
    [][\A b \in 1..Len(batches) :
          /\ (batches[b].analysis = "pending" /\ batches'[b].analysis = "failed")
                => /\ factFeedError' # "none"
                   /\ claims' = claims
                   /\ chunkBufferRef' = chunkBufferRef
          /\ batches[b].analysis = "failed"
                => /\ AllIds(batches[b].payload) \cap AllIds(chunkBufferRef') = {}
                   /\ \A c \in 1..Len(batches') :
                         c # b => AllIds(batches'[c].payload)
                                      \cap AllIds(batches[b].payload) = {}]_vars

C11_TickAfterFailure ==
    /\ Len(batches) = 2
    /\ batches[1].analysis = "failed"
    /\ answered # <<>>
    /\ answered[1] = 1
    /\ batches[2].analysis = "pending"

InProgress == {b \in 1..Len(batches) : batches[b].pc # "done"}

\* C14 as stated: at most one flush is in progress at any time; no tick
\* dispatches a batch while an earlier batch awaits its response.
C14_OneFlushAtATime == Cardinality(InProgress) <= 1

\* C14 amended: a tick may dispatch a batch while earlier batches are in
\* progress; it sends the whole non-empty pending buffer and empties it in
\* the same step, so the new batch shares no segment with a batch that is
\* still in progress.
C14_OverlappingFlushesDisjoint ==
    [][Len(batches') = Len(batches) + 1
          => LET new == batches'[Len(batches')]
             IN /\ chunkBufferRef # <<>>
                /\ new.payload = chunkBufferRef
                /\ chunkBufferRef' = <<>>
                /\ \A b \in InProgress :
                      AllIds(batches[b].payload) \cap AllIds(new.payload) = {}]_vars

C14_TwoFlushesInProgress ==
    /\ Len(batches) = 2
    /\ batches[1].pc = "claims"
    /\ batches[2].pc = "claims"

FailStep(i) == uploads[i].status = "inflight" /\ uploads'[i].outcome = "failed"

Enqueued(i) == i <= Len(uploads)

Settled(i) == i <= Len(uploads) /\ uploads[i].status = "done"

\* C15 as stated: whenever a window fails, an error is reported and the
\* segment list is unchanged.
C15_FailureAlwaysReported ==
    [][\A i \in 1..Len(uploads) :
          FailStep(i) => (error' # "none" /\ segments' = segments)]_vars

\* C15 amended: a window that fails leaves the segment list unchanged and,
\* if its run is still the current one, reports an error; every enqueued
\* window, also one behind a failed window, eventually has its request
\* issued and settled.
C15_FailedWindowIsolated ==
    /\ [][\A i \in 1..Len(uploads) :
             FailStep(i) => /\ segments' = segments
                            /\ uploads[i].runId = runIdRef => error' # "none"]_vars
    /\ \A i \in 1..MaxCallbacks : Enqueued(i) ~> Settled(i)

C15_MergedBehindFailure ==
    /\ Len(uploads) >= 2
    /\ uploads[1].outcome = "failed"
    /\ uploads[2].outcome = "merged"
    /\ uploads[1].runId = uploads[2].runId
    /\ segments # <<>>

MergeCall == call.fn = "mergeSegments" /\ Len(call.incoming) = 1

\* the candidate of the call was merged into the tail of the list
MergedIntoTail == Len(call.result) = Len(call.current)

\* C16: mergeSegments merges the candidate into the last segment exactly when
\* both have the same sessionId and the same speaker and candidate.start -
\* last.end is at most 1.25 s; it appends the candidate to an empty list.
C16_MergesIffWithinGap ==
    MergeCall =>
        LET c == call.incoming[1]
        IN IF call.current = <<>>
           THEN call.result = <<c>>
           ELSE LET last == call.current[Len(call.current)]
                IN MergedIntoTail <=> /\ last.sessionId = c.sessionId
                                      /\ last.speaker = c.speaker
                                      /\ 4 * (c.start - last.end) <= 5 * TimeScale

C16_MergedAtExactGap ==
    /\ MergeCall
    /\ call.current # <<>>
    /\ MergedIntoTail
    /\ 4 * (call.incoming[1].start - call.current[Len(call.current)].end)
           = 5 * TimeScale

RECURSIVE TokensFrom(_, _, _)
TokensFrom(text, word, done) ==
    IF text = <<>> THEN (IF word = <<>> THEN done ELSE Append(done, word))
    ELSE IF Head(text) \in Whitespace
         THEN TokensFrom(Tail(text), <<>>,
                         IF word = <<>> THEN done ELSE Append(done, word))
         ELSE TokensFrom(Tail(text), Append(word, Head(text)), done)

\* the words of a text, in order
Tokens(text) == TokensFrom(text, <<>>, <<>>)

\* no whitespace at either end, and between two words exactly one space
SingleSpaced(text) ==
    \A k \in 1..Len(text) :
        text[k] \in Whitespace
            => /\ text[k] = " "
               /\ 1 < k /\ k < Len(text)
               /\ text[k + 1] \notin Whitespace

\* C17: merging one candidate either appends it and leaves every existing
\* segment as it was, or keeps the length and changes only the last segment:
\* id, sessionId, speaker and start are kept, end is the larger of the two
\* ends, and the text is the words of the last segment followed by the words
\* of the candidate, separated by single spaces.
C17_OnlyTheTailChanges ==
    MergeCall =>
        LET cur == call.current
            c == call.incoming[1]
            res == call.result
        IN /\ \A k \in 1..(Len(cur) - 1) : res[k] = cur[k]
           /\ \/ res = Append(cur, c)
              \/ /\ cur # <<>>
                 /\ Len(res) = Len(cur)
                 /\ LET last == cur[Len(cur)]
                        new == res[Len(res)]
                    IN /\ new.id = last.id
                       /\ new.sessionId = last.sessionId
                       /\ new.speaker = last.speaker
                       /\ new.start = last.start
                       /\ new.end = (IF last.end >= c.end THEN last.end ELSE c.end)
                       /\ Tokens(new.text) = Tokens(last.text) \o Tokens(c.text)
                       /\ SingleSpaced(new.text)

C17_TailExtendedAndCollapsed ==
    /\ MergeCall
    /\ Len(call.current) = 2
    /\ MergedIntoTail
    /\ call.current[2].end > call.incoming[1].end
    /\ ~SingleSpaced(call.current[2].text)
    /\ ~SingleSpaced(call.incoming[1].text)

\* the response of unit i is handled in this step (its run is still current)
AnsweredStep(i) ==
    /\ i <= Len(uploads)
    /\ uploads[i].status = "inflight"
    /\ uploads'[i].status = "done"
    /\ uploads'[i].outcome = "merged"

\* C18: a response with an empty word list, or with no entry of kind "word",
\* produces no segment (no segment id is drawn) and leaves the segment list
\* exactly as it was.
C18_NoWordsNoChange ==
    [][\A i \in 1..Len(uploads) :
          (AnsweredStep(i) /\ uploads'[i].response \in {"empty", "no word"})
              => (segments' = segments /\ rnd' = rnd)]_vars

C18_SpacingOnlyResponseHandled ==
    /\ segments # <<>>
    /\ \E i \in 1..Len(uploads) :
          /\ uploads[i].status = "done"
          /\ uploads[i].outcome = "merged"
          /\ uploads[i].runId = runIdRef
          /\ uploads[i].response = "no word"

\* C19: every segment of the list has start <= end, whatever word lists the
\* transcription boundary returned.
C19_StartNotAfterEnd ==
    \A k \in 1..Len(segments) : segments[k].start <= segments[k].end

\* C20: no two adjacent segments of the list have the same speaker with
\* next.start - previous.end within the merge threshold.
C20_NoMergeablePairLeft ==
    \A k \in 1..(Len(segments) - 1) :
        segments[k].speaker = segments[k + 1].speaker
            => segments[k + 1].start - segments[k].end > MERGE_GAP_SECONDS

C20_SameSpeakerApart ==
    \E k \in 1..(Len(segments) - 1) :
        /\ segments[k].speaker = segments[k + 1].speaker
        /\ segments[k + 1].start - segments[k].end > MERGE_GAP_SECONDS
        /\ Len(segments[k].text) > 1

ConvertCall == call.fn = "convertWordsToSegments"

\* the maximal runs of consecutive "word" entries of one speaker, each with
\* the spacing entries that follow its words
RECURSIVE RunsFrom(_, _)
RunsFrom(words, runs) ==
    IF words = <<>> THEN runs
    ELSE LET w == Head(words)
             n == Len(runs)
         IN IF w.type = "word"
            THEN IF n > 0 /\ normalizeSpeakerId(runs[n][1].speaker_id)
                                 = normalizeSpeakerId(w.speaker_id)
                 THEN RunsFrom(Tail(words), [runs EXCEPT ![n] = Append(@, w)])
                 ELSE RunsFrom(Tail(words), Append(runs, <<w>>))
            ELSE IF n > 0 /\ w.type = "spacing"
                 THEN RunsFrom(Tail(words), [runs EXCEPT ![n] = Append(@, w)])
                 ELSE RunsFrom(Tail(words), runs)

RunsOf(words) == RunsFrom(words, <<>>)

RECURSIVE RunText(_)
RunText(run) ==
    IF run = <<>> THEN <<>>
    ELSE (IF Head(run).type = "word" THEN Head(run).text ELSE <<" ">>)
             \o RunText(Tail(run))

\* the last "word" entry of a run
LastWordOf(run) ==
    run[CHOOSE k \in 1..Len(run) :
            /\ run[k].type = "word"
            /\ \A j \in (k + 1)..Len(run) : run[j].type # "word"]

\* the segment the claim describes for one run
SegmentOfRun(run, chunkStart) ==
    [speaker |-> normalizeSpeakerId(run[1].speaker_id),
     start |-> chunkStart + run[1].start,
     end |-> chunkStart + LastWordOf(run).end,
     text |-> Trim(RunText(run))]

\* what the claim compares of a produced segment
Described(seg) ==
    [speaker |-> seg.speaker, start |-> seg.start, end |-> seg.end, text |-> seg.text]

\* the result is, in order, the described segment of every run
OneSegmentPerRun ==
    LET runs == RunsOf(call.words)
    IN /\ Len(call.result) = Len(runs)
       /\ \A k \in 1..Len(runs) :
             Described(call.result[k]) = SegmentOfRun(runs[k], call.chunkStart)

\* every word carries finite timestamps and does not end before it starts
WellTimed(words) ==
    \A k \in 1..Len(words) :
        words[k].type = "word"
            => /\ IsFinite(words[k].start)
               /\ IsFinite(words[k].end)
               /\ words[k].start <= words[k].end

\* every run has a text that is not blank
NoBlankRun(words) ==
    \A k \in 1..Len(RunsOf(words)) : Trim(RunText(RunsOf(words)[k])) # <<>>

FailedRun == capturing /\ error = "init"

\* no window of the current run is in the upload queue
NoWindowOfThisRun(queue) == \A i \in 1..Len(queue) : queue[i].runId # runIdRef

\* C22: a start() that fails (the environment has no AudioContext, or the
\* stream has no audio track) reports an error and leaves the pipeline idle:
\* it is not marked connected, no audio callback is subscribed, the
\* accumulator stays empty, and no window of that run is enqueued, not even
\* by the forced flush when the run is stopped.
C22_FailedStartLeavesPipelineIdle ==
    [][/\ (capturing /\ ~resuming /\ processorRef = 0) => error = "init"
       /\ FailedRun => /\ ~isConnected
                       /\ processorRef = 0
                       /\ chunkSamplesRef = 0
                       /\ chunkBuffersRef = <<>>
                       /\ NoWindowOfThisRun(uploads)
                       /\ NoWindowOfThisRun(uploads')]_vars

C22_SecondStartFailed ==
    /\ FailedRun
    /\ runIdRef = 2
    /\ uploads # <<>>
    /\ nextBuf < MaxCallbacks

RECURSIVE SumLen(_)
SumLen(buffers) ==
    IF buffers = <<>> THEN 0 ELSE Head(buffers).len + SumLen(Tail(buffers))

TargetSamples == TARGET_SAMPLE_RATE * CHUNK_DURATION_SECONDS

\* the units this step appends to the upload queue
NewUnits == (Len(uploads) + 1)..Len(uploads')

\* C23: between callbacks the accumulator holds fewer than 16000 x 6 = 96000
\* samples; a window emitted by a threshold flush holds at least that many
\* samples and everything the accumulator held together with the buffer of
\* the callback, and the accumulator is empty right after the flush.
C23_AccumulatorBelowThreshold ==
    [][/\ chunkSamplesRef < TargetSamples
       /\ chunkSamplesRef = SumLen(chunkBuffersRef)
       /\ \A i \in NewUnits :
             ~uploads'[i].force
                 => /\ uploads'[i].total >= TargetSamples
                    /\ uploads'[i].total = SumLen(uploads'[i].samples)
                    /\ \E b \in [id : {nextBuf'}, len : BufferLengths] :
                          uploads'[i].samples = Append(chunkBuffersRef, b)
                    /\ chunkSamplesRef' = 0
                    /\ chunkBuffersRef' = <<>>]_vars

C23_RefilledAfterThresholdFlush ==
    /\ chunkSamplesRef > 0
    /\ \E i \in 1..Len(uploads) :
          /\ ~uploads[i].force
          /\ uploads[i].runId = runIdRef
          /\ uploads[i].total > TargetSamples

\* the windows of a run, in emission order
UnitsOf(run) == SelectSeq(uploads, LAMBDA u : u.runId = run)

\* C24: within a run the emitted windows carry the sequence numbers 0, 1, 2,
\* ... in emission order, the first starts at offset 0, and each later one
\* starts where the previous one ends: at the previous start offset plus the
\* previous sample count divided by the target rate.
C24_WindowsNumberedAndContiguous ==
    \A r \in Runs :
        LET units == UnitsOf(r)
        IN /\ \A k \in 1..Len(units) : units[k].chunkId = k - 1
           /\ units # <<>> => units[1].chunkStart = 0
           /\ \A k \in 1..(Len(units) - 1) :
                 units[k + 1].chunkStart * TARGET_SAMPLE_RATE
                     = units[k].chunkStart * TARGET_SAMPLE_RATE
                           + units[k].total * TimeScale

C24_SecondWindowOfARun ==
    /\ Len(UnitsOf(1)) = 2
    /\ UnitsOf(1)[2].chunkStart > CHUNK_DURATION_SECONDS * TimeScale

\* the flush of batch b awaits the response of analyzeSegmentChunk
AwaitingClaims(b) == b <= Len(batches) /\ batches[b].pc = "claims"

\* the response analyzed of batch b is handled and its claims are in the list
MergesResponse(b, analyzed) ==
    /\ AnalyzeOk(b)
    /\ AllIds(claims') = AllIds(claims) \cup AllIds(analyzed)

\* C25: while the flush timer is stopped, a flush that already awaits its
\* response is not cancelled: whatever claims the response carries, its
\* continuation can run and leaves them in the claim list; and the stopped
\* timer dispatches no further batch.
C25_StoppedTimerKeepsInFlightFlush ==
    ~TimerRunning
        => /\ ~ENABLED Tick
           /\ \A b \in 1..Len(batches) :
                 AwaitingClaims(b)
                     => \A analyzed \in ClaimLists :
                           ENABLED MergesResponse(b, analyzed)

C25_InFlightWhenTimerStopped ==
    /\ ~TimerRunning
    /\ ~sessionReady
    /\ claims # <<>>
    /\ \E b \in 1..Len(batches) : AwaitingClaims(b)

\* segment next would be merged into segment last by the merge logic of the
\* chunked mode
Mergeable(last, next) ==
    /\ last.sessionId = next.sessionId
    /\ last.speaker = next.speaker
    /\ next.start - last.end <= MERGE_GAP_SECONDS

\* C26: in streaming mode a segment built from a final result that has the
\* sessionId and the speaker of the last segment and a gap within the merge
\* threshold extends the last segment instead of being appended, as in
\* chunked mode.
C26_StreamingMergesLikeChunked ==
    [][(socketRef = "open" /\ Len(segments') = Len(segments) + 1 /\ segments # <<>>)
          => ~Mergeable(segments[Len(segments)], segments'[Len(segments')])]_vars

\* the message handled by this step of the streaming hook
Handled == received'[Len(received')]

MessageStep == socketRef = "open" /\ Len(received') = Len(received) + 1

\* the result carries an is_final flag that is true
MarkedFinal(data) ==
    \/ data.is_final = "true"
    \/ data.alternatives # <<>> /\ data.alternatives[1].is_final = "true"

\* the flag that counts is false: the one of the result, or the one of its
\* alternative when the result has none
FlaggedNotFinal(data) ==
    \/ data.is_final = "false"
    \/ /\ data.is_final = "absent"
       /\ data.alternatives # <<>>
       /\ data.alternatives[1].is_final = "false"

\* C27 as stated: a message changes the segment list only if it is a result
\* marked is_final.
C27_OnlyMarkedFinalResults ==
    [][(MessageStep /\ segments' # segments)
          => (Handled.type = "Results" /\ MarkedFinal(Handled))]_vars

\* C27: a message changes the segment list only if it is a "Results" message
\* whose is_final flag is true or absent (an absent flag counts as final); a
\* result whose flag is false never changes the segment list.
C27_NonFinalResultsIgnored ==
    [][MessageStep
          => /\ segments' # segments => Handled.type = "Results"
             /\ FlaggedNotFinal(Handled) => segments' = segments]_vars

C27_InterimResultAfterSegment ==
    /\ Len(received) = 3
    /\ FlaggedNotFinal(received[2])
    /\ received[2].is_final = "false"
    /\ FlaggedNotFinal(received[3])
    /\ received[3].is_final = "absent"
    /\ Len(segments) = 1

DownsampleCall == call.fn = "downsampleBuffer"

\* C28: for rates Rin >= Rout downsampleBuffer returns round(N * Rout / Rin)
\* samples for an input of N samples, that is the integer L with
\* L <= N * Rout / Rin + 1/2 < L + 1; for Rout > Rin it returns the input.
C28_OutputLengthIsRounded ==
    DownsampleCall =>
        LET N == Len(call.buffer)
            Rin == call.inputSampleRate
            Rout == call.outputSampleRate
            L == Len(call.result)
        IN IF Rout > Rin THEN call.result = call.buffer
           ELSE /\ 2 * L * Rin <= 2 * N * Rout + Rin
                /\ 2 * N * Rout + Rin < 2 * (L + 1) * Rin

C28_LengthRoundedUp ==
    /\ DownsampleCall
    /\ call.inputSampleRate > call.outputSampleRate
    /\ 2 * Len(call.buffer) * call.outputSampleRate
           = (2 * Len(call.result) - 1) * call.inputSampleRate

\* the output samples whose averaging window holds input index i (from 0)
WindowsHolding(i) ==
    {k \in 1..Len(call.result) :
        /\ call.result[k].offset <= i
        /\ i < call.result[k].offset + call.result[k].count}

\* C29: for Rin > Rout every input index 0..N-1 lies in the averaging window
\* of exactly one output sample.
C29_WindowsTileTheInput ==
    (DownsampleCall /\ call.inputSampleRate > call.outputSampleRate)
        => \A i \in 0..(Len(call.buffer) - 1) : Cardinality(WindowsHolding(i)) = 1

WavCall == call.fn = "createWavBlob"

\* C30: for every sample s, with c the sample clamped to [-1, 1],
\* createWavBlob writes round(c * 32767) when c >= 0 and round(c * 32768)
\* when c < 0, and every written value lies in [-32768, 32767].
C30_SamplesRoundedToInt16 ==
    WavCall =>
        /\ Len(call.result.data) = Len(call.samples)
        /\ \A k \in 1..Len(call.samples) :
              LET s == call.samples[k]
                  c == IF s > SampleScale THEN SampleScale
                       ELSE IF s < -SampleScale THEN -SampleScale ELSE s
                  written == call.result.data[k]
              IN /\ written >= -32768
                 /\ written <= 32767
                 /\ LET x == IF c >= 0 THEN c * 32767 ELSE c * 32768
                    IN /\ 2 * written * SampleScale <= 2 * x + SampleScale
                       /\ 2 * x + SampleScale < 2 * (written + 1) * SampleScale

\* the loop of convertWordsToSegments after the first k entries of the call
LoopAfter(k) ==
    ConvLoop(ConvInit, SubSeq(call.words, 1, k), "s1", call.chunkStart, 0, 0)

\* entry k of the call is a word that leaves out a timestamp
OmitsTimestamp(k) ==
    /\ call.words[k].type = "word"
    /\ ~IsFinite(call.words[k].start) \/ ~IsFinite(call.words[k].end)

\* entry k of the call opens a segment
OpensSegment(k) ==
    \/ ~LoopAfter(k - 1).open
    \/ LoopAfter(k - 1).currentSpeaker # normalizeSpeakerId(call.words[k].speaker_id)

\* C31 as stated: a word with an omitted start or end is never placed before
\* the end of the word before it.
C31_OmittedNeverBeforePreviousEnd ==
    ConvertCall =>
        \A k \in 1..Len(call.words) :
            OmitsTimestamp(k)
                => LoopAfter(k).lastWordEnd >= LoopAfter(k - 1).lastWordEnd

\* What the loop does with an omitted timestamp (C31): a word whose start is
\* omitted starts at the end of the previous word (0 for the first word) and
\* is never placed before it; a word whose end is omitted ends at its start,
\* wherever the provider put that start.
C31_OmittedTimestampsDefaulted ==
    ConvertCall =>
        \A k \in 1..Len(call.words) :
            LET w == call.words[k]
                before == LoopAfter(k - 1)
                after == LoopAfter(k)
            IN OmitsTimestamp(k)
                  => /\ ~IsFinite(w.start)
                        => /\ after.lastWordEnd >= before.lastWordEnd
                           /\ OpensSegment(k) => after.segmentStart = before.lastWordEnd
                           /\ after.lastWordEnd
                                  = (IF IsFinite(w.end) /\ w.end > before.lastWordEnd
                                     THEN w.end ELSE before.lastWordEnd)
                     /\ (IsFinite(w.start) /\ ~IsFinite(w.end))
                        => after.lastWordEnd = w.start

C31_StartOmittedAfterAWord ==
    /\ ConvertCall
    /\ Len(call.words) = 2
    /\ call.words[1].type = "word"
    /\ IsFinite(call.words[1].end)
    /\ call.words[1].end > 0
    /\ call.words[2].type = "word"
    /\ ~IsFinite(call.words[2].start)
    /\ OpensSegment(2)
    /\ Len(call.result) = 2
    /\ call.result[2].start = call.chunkStart + call.words[1].end

\* C32: no segment of the chunked-mode session list has an empty or
\* whitespace-only text, whatever word lists the transcription boundary
\* returned: a run of words whose trimmed text is empty yields no segment.
C32_NoBlankSegment ==
    \A k \in 1..Len(segments) :
        /\ Trim(segments[k].text) # <<>>
        /\ segments[k].text = Trim(segments[k].text)

C32_BlankRunDiscarded ==
    /\ Len(segments) = 1
    /\ \E i \in 1..Len(uploads) :
          /\ uploads[i].status = "done"
          /\ uploads[i].outcome = "merged"
          /\ uploads[i].runId = runIdRef
          /\ uploads[i].response = "blank word"
    /\ \A i \in 1..Len(uploads) :
          uploads[i].outcome = "merged" => uploads[i].response = "blank word"

\* C33: every id of the processed set belongs to a segment that is in the
\* pending buffer or in a dispatched batch, on the live and on the replay page.
C33_RegisteredBufferedOrDispatched ==
    processedSegmentsRef \subseteq
        (AllIds(chunkBufferRef) \cup AllIds(Dispatched(batches)))

\* the same on the live page alone
C33_LiveRegisteredBufferedOrDispatched ==
    page = "live" => C33_RegisteredBufferedOrDispatched

\* segment k of the session list was sent to the analysis boundary with the
\* text it has now
Covered(k) ==
    \E b \in 1..Len(batches) : \E j \in 1..Len(batches[b].payload) :
        /\ batches[b].payload[j].id = segments[k].id
        /\ batches[b].payload[j].text = segments[k].text

Uncovered == {k \in 1..Len(segments) : ~Covered(k)}

\* C34: while the session is ready and the timer can still dispatch, a
\* session list that holds text not yet sent to the analysis boundary leads
\* to one whose segments have all of their text in dispatched batches, also
\* when the text was merged into a tail segment that is already registered.
C34_MergedTextReachesAnalysis ==
    (sessionReady /\ Len(batches) < MaxBatches /\ Uncovered # {})
        ~> (Uncovered = {})

\* the tail segment was dispatched and then grew by a merge
C34_TailGrewAfterDispatch ==
    /\ sessionReady
    /\ Len(batches) < MaxBatches
    /\ chunkBufferRef = <<>>
    /\ Len(segments) = 1
    /\ segments[1].id \in AllIds(Dispatched(batches))
    /\ ~Covered(1)

\* C36: between a stop and the next start no audio callback adds samples to
\* the accumulator and no window is enqueued, also when the stop came while
\* the start was awaiting resume().
C36_IdleWhileStopped ==
    [][(~capturing /\ ~capturing')
          => /\ accVars' = accVars
             /\ Len(uploads') = Len(uploads)
             /\ delivered' = delivered]_vars

\* a callback has added samples while capture is stopped
C36_SamplesAddedWhileStopped ==
    /\ ~capturing
    /\ chunkBuffersRef # <<>>

\* the buffers that callbacks have added so far
Accepted == UNION {{delivered[r][j].id : j \in 1..Len(delivered[r])} : r \in Runs}

\* C38: every enqueued window holds only buffers that callbacks of the run
\* it is tagged with delivered; a callback adds samples only for the run
\* that is current, and a callback of an earlier run leaves the accumulator
\* and the queue as they are.
C38_WindowsOfOneRun ==
    [][/\ \A i \in 1..Len(uploads') : \A k \in 1..Len(uploads'[i].samples) :
             \E j \in 1..Len(delivered'[uploads'[i].runId]) :
                 delivered'[uploads'[i].runId][j] = uploads'[i].samples[k]
       /\ \A r \in Runs : delivered'[r] # delivered[r] => r = runIdRef
       /\ (nextBuf' # nextBuf /\ delivered' = delivered)
             => (accVars' = accVars /\ uploads' = uploads)]_vars

\* a callback of an earlier run was delivered during the current run, which
\* has enqueued a window of its own
C38_EarlierRunCallbackIgnored ==
    /\ capturing
    /\ nextBuf > Cardinality(Accepted)
    /\ \E i \in 1..Len(uploads) : uploads[i].runId = runIdRef

\* C35: while the session is ready and a batch can still be dispatched, a
\* non-empty pending buffer leads to its dispatch, however timer ticks and
\* drawer toggles interleave.
C35_PendingEventuallySent ==
    (sessionReady /\ Len(batches) < MaxBatches /\ chunkBufferRef # <<>>)
        ~> (chunkBufferRef = <<>>)

\* the drawer was opened and the interval created anew while segments wait
C35_TimerRecreatedWhilePending ==
    /\ sessionReady
    /\ showFactFeed
    /\ elapsed = 0
    /\ chunkBufferRef # <<>>
    /\ batches = <<>>

\* C37: on the live page no batch is dispatched before the session-start call
\* has succeeded; until then every registered segment is in the pending
\* buffer, and the first batch is the whole buffer and so holds all of them.
C37_NoBatchBeforeSessionReady ==
    [][page = "live"
          => /\ Len(batches') > Len(batches) => sessionReady
             /\ ~sessionReady'
                   => /\ batches' = <<>>
                      /\ processedSegmentsRef' \subseteq AllIds(chunkBufferRef')
             /\ (batches = <<>> /\ batches' # <<>>)
                   => /\ batches'[1].payload = chunkBufferRef
                      /\ chunkBufferRef' = <<>>
                      /\ processedSegmentsRef
                             \subseteq AllIds(batches'[1].payload)]_vars

\* two segments are registered while the session-start call is pending
C37_RegisteredBeforeSessionReady ==
    /\ page = "live"
    /\ sessionReq
    /\ ~sessionReady
    /\ Len(chunkBufferRef) = 2
    /\ batches = <<>>

====
